---- MODULE Spec2Model ----
(***************************************************************************)
(* A model of the ityfuzz EVM fuzzer core: the flash-loan middleware       *)
(* (src/evm/onchain/flashloan.rs) and the corpus initializer               *)
(* (src/evm/corpus_initializer.rs).                                        *)
(*                                                                         *)
(* Conventions.  Option<T> is a sequence of length at most one: None is    *)
(* << >> and Some(x) is <<x>>.  A HashSet is a set, a Vec a sequence.      *)
(* An address is a string.  A 256-bit word that is read as an address is   *)
(* a record [hi, lo]: the upper 96 bits and the lower 160 bits.            *)
(***************************************************************************)
EXTENDS Integers, Sequences, FiniteSets, TLC

None == << >>
Some(x) == <<x>>

\* a HashMap is a function; insert(k, v) adds or replaces
EmptyMap == [k \in {} |-> {}]
Put(map, k, v) == [x \in DOMAIN map \cup {k} |-> IF x = k THEN v ELSE map[x]]
Get(map, k) == IF k \in DOMAIN map THEN Some(map[k]) ELSE None

(***************************************************************************)
(* Bounds of the model.                                                    *)
(***************************************************************************)
\* the largest txn_value / call value the environment passes
MaxValue == 1
\* analyze_call and value-carrying steps are offered while the ledger sums stay within this
MaxLedger == 2
\* the most contracts a loader brings
MaxContracts == 2
\* the most contracts without ABI a loader brings
MaxUnverified == 1
\* the largest selector the chain knows
MaxSelector == 100
\* the longest list of pairs an OffChainConfig is made of
MaxPairList == 2
\* the most calls of OffChainConfig::initialize
MaxInits == 1

(***************************************************************************)
(* Addresses.                                                              *)
(***************************************************************************)
\* corpus_initializer.rs:374-378
default_callers ==
    {"8EF508Aca04B32Ff3ba5003177cb18BfA6Cd79dd", "35c9dfd76bf02107ff4f7128Bd69716612d31dDb"}
\* corpus_initializer.rs:390-394
contract_callers ==
    {"e1A425f1AC34A8a441566f93c82dD730639c8510", "68Dd4F5AC792eAaa5e36f4f4e0474E0625dc9024"}
\* addresses contracts are deployed to, and one address that is nothing at all
ContractAddrs == {"c1", "c2"}
Stranger == "ee"

(***************************************************************************)
(* ABIConfig (contract_utils): selector, name, flags.                      *)
(***************************************************************************)
Fn(sel, name, static, payable, ctor) ==
    [function |-> sel, function_name |-> name, is_static |-> static,
     is_payable |-> payable, is_constructor |-> ctor]

AbiErc20 ==
    << Fn(1, "balanceOf", TRUE, FALSE, FALSE), Fn(2, "transfer", TRUE, FALSE, FALSE),
       Fn(3, "transferFrom", TRUE, FALSE, FALSE), Fn(4, "approve", TRUE, FALSE, FALSE) >>
AbiPair ==
    << Fn(5, "skim", TRUE, FALSE, FALSE), Fn(6, "sync", TRUE, FALSE, FALSE),
       Fn(7, "swap", TRUE, FALSE, FALSE) >>
\* the ABI lists the environment passes to on_contract_insertion
InsertionAbis ==
    { << >>, AbiErc20, AbiPair, AbiErc20 \o AbiPair,
      SubSeq(AbiErc20, 1, 3), SubSeq(AbiPair, 2, 3) }

(***************************************************************************)
(* State.                                                                  *)
(***************************************************************************)
VARIABLES
    callers,          \* EVMFuzzState: the callers registered with add_caller
    middleware,       \* Flashloan: known_addresses, erc20_address, pair_address, endpoint
    flashloan_oracle, \* Rc<RefCell<IERC20OracleFlashloan>>: borrowed, registered
    flashloan_data,   \* host.evmstate.flashloan_data
    last,             \* history: the last operation, its arguments and its result
    txn_values,       \* history: sum of the txn values analyze_call has seen
    borrow_ran        \* history: whether analyze_call has seen a Borrow input

VARIABLES
    pc,               \* where EVMCorpusInitializer::initialize stands
    loader,           \* ContractLoader: contracts, setup_data
    evmstate,         \* executor.host.evmstate: balance (flashloan_data is kept apart)
    host,             \* executor.host: code, flashloan_middleware (whether there is one)
    state,            \* EVMFuzzState: metadata (ABIMap), addresses, hash_to_address,
                      \*   corpus, infant_states_state (callers are kept apart)
    scheduler,        \* the calls the input scheduler and its clones received
    infant_scheduler, \* the calls the infant scheduler received
    artifacts,        \* EVMInitializationArtifacts under construction
    blacklist_addr,   \* the global BLACKLIST_ADDR
    chain,            \* what the world outside answers: the ABIs loading brings into ABIMap
    heimdall_calls    \* history: the calls of fetch_abi_heimdall

flVars == <<middleware, flashloan_oracle, flashloan_data, last, txn_values, borrow_ran>>
initVars == <<pc, loader, evmstate, host, state, scheduler, infant_scheduler, artifacts,
              blacklist_addr, chain, heimdall_calls>>

VARIABLES
    offchain,         \* OffChainConfig: v2_pairs, pair_cache, reserves_cache, balance_cache
    off_run,          \* the use of the OffChainConfig: how initialize ended, how often it
                      \*   ran, the last query and its result
    vm                \* the executor the probes run on: the addresses with code and what
                      \*   the static calls return

VARIABLES
    onchain,          \* OnChainConfig: chain_name and what the endpoint answers: the pairs of
                      \*   each token and the reserves of each pair
    info              \* the last call of path discovery and what it returned

VARIABLES
    typed_bug_oracle, \* TypedBugOracle: address_to_name
    ctx,              \* OracleCtx: post_state.typed_bug and whether fuzz_state's metadata
                      \*   map holds ArtifactInfoMetadata
    default_hasher,   \* what DefaultHasher::finish gives for what was written to it: std
                      \*   leaves the algorithm unspecified
    bug_output        \* the reports pushed to the output and what oracle returned

chainVars == <<offchain, off_run, vm, onchain, info,
               typed_bug_oracle, ctx, default_hasher, bug_output>>
vars == <<callers, flVars, initVars, chainVars>>

\* EVMFuzzState as the initializer finds it: nothing registered, no metadata
NewFuzzState ==
    [metadata |-> None, addresses |-> {}, hash_to_address |-> EmptyMap,
     corpus |-> << >>, infant_states_state |-> [corpus |-> << >>]]

(***************************************************************************)
(* flashloan.rs                                                            *)
(***************************************************************************)
\* scale!()
scale == 1000000

\* Flashloan::new
NewFlashloan(endpoint) ==
    [known_addresses |-> {}, erc20_address |-> {}, pair_address |-> {}, endpoint |-> endpoint]

\* FlashloanData::new
NewFlashloanData ==
    [oracle_recheck_reserve |-> {}, oracle_recheck_balance |-> {}, owed |-> 0, earned |-> 0]

abi_signatures_token == {"balanceOf", "transfer", "transferFrom", "approve"}
abi_signatures_pair == {"skim", "sync", "swap"}
abi_names(abi) == {abi[i].function_name : i \in DOMAIN abi}

\* Flashloan::get_token_context: Some(context) iff the middleware has an endpoint
get_token_context(m, addr) ==
    IF m.endpoint # None THEN Some([token |-> addr, endpoint |-> m.endpoint[1]]) ELSE None

\* the shared IERC20OracleFlashloan in its RefCell: whether it is mutably borrowed, the
\* tokens registered (in the order of the calls) and the reserve slots registered
NewOracle == [borrowed |-> FALSE, registered |-> << >>, reserve_slots |-> EmptyMap]

\* RefCell::try_borrow_mut on the shared oracle: Ok iff nobody holds a borrow
try_borrow_mut(o) == ~o.borrowed

\* IERC20OracleFlashloan::register_token, as the middleware calls it
register_token(o, addr, token_ctx) ==
    [o EXCEPT !.registered = Append(@, [token |-> addr, ctx |-> token_ctx])]

\* on_contract_insertion without the known_addresses check
on_contract_insertion_reclassifies(m, o, addr, abi) ==
    LET names == abi_names(abi)
        token_ctx == get_token_context(m, addr)
        is_erc20 == /\ abi_signatures_token \subseteq names
                    /\ token_ctx # None
                    /\ try_borrow_mut(o)
        is_pair == abi_signatures_pair \subseteq names
    IN [middleware |->
           [m EXCEPT !.known_addresses = @ \cup {addr},
                     !.erc20_address = IF is_erc20 THEN @ \cup {addr} ELSE @,
                     !.pair_address = IF is_pair THEN @ \cup {addr} ELSE @],
        oracle |-> IF is_erc20 THEN register_token(o, addr, token_ctx[1]) ELSE o,
        ret |-> <<is_erc20, is_pair>>]

\* on_contract_insertion that takes a contract for a token or else for a pair, never both
on_contract_insertion_exclusive(m, o, addr, abi) ==
    IF addr \in m.known_addresses
    THEN [middleware |-> m, oracle |-> o, ret |-> <<FALSE, FALSE>>]
    ELSE LET names == abi_names(abi)
             token_ctx == get_token_context(m, addr)
             is_erc20 == /\ abi_signatures_token \subseteq names
                         /\ token_ctx # None
                         /\ try_borrow_mut(o)
             is_pair == ~is_erc20 /\ abi_signatures_pair \subseteq names
         IN [middleware |->
                [m EXCEPT !.known_addresses = @ \cup {addr},
                          !.erc20_address = IF is_erc20 THEN @ \cup {addr} ELSE @,
                          !.pair_address = IF is_pair THEN @ \cup {addr} ELSE @],
             oracle |-> IF is_erc20 THEN register_token(o, addr, token_ctx[1]) ELSE o,
             ret |-> <<is_erc20, is_pair>>]

\* on_contract_insertion that forgets the address when the oracle is borrowed, to try again
on_contract_insertion_retries(m, o, addr, abi) ==
    IF addr \in m.known_addresses
    THEN [middleware |-> m, oracle |-> o, ret |-> <<FALSE, FALSE>>]
    ELSE LET names == abi_names(abi)
             token_ctx == get_token_context(m, addr)
             wanted == abi_signatures_token \subseteq names /\ token_ctx # None
             is_erc20 == wanted /\ try_borrow_mut(o)
             is_pair == abi_signatures_pair \subseteq names
         IN [middleware |->
                [m EXCEPT !.known_addresses = IF wanted /\ ~is_erc20 THEN @ ELSE @ \cup {addr},
                          !.erc20_address = IF is_erc20 THEN @ \cup {addr} ELSE @,
                          !.pair_address = IF is_pair THEN @ \cup {addr} ELSE @],
             oracle |-> IF is_erc20 THEN register_token(o, addr, token_ctx[1]) ELSE o,
             ret |-> <<is_erc20, is_pair>>]

\* Flashloan::on_contract_insertion: the middleware, the oracle and the pair returned
on_contract_insertion(m, o, addr, abi) ==
    IF addr \in m.known_addresses
    THEN [middleware |-> m, oracle |-> o, ret |-> <<FALSE, FALSE>>]
    ELSE LET names == abi_names(abi)
             token_ctx == get_token_context(m, addr)
             is_erc20 == /\ abi_signatures_token \subseteq names
                         /\ token_ctx # None
                         /\ try_borrow_mut(o)
             is_pair == abi_signatures_pair \subseteq names
         IN [middleware |->
                [m EXCEPT !.known_addresses = @ \cup {addr},
                          !.erc20_address = IF is_erc20 THEN @ \cup {addr} ELSE @,
                          !.pair_address = IF is_pair THEN @ \cup {addr} ELSE @],
             oracle |-> IF is_erc20 THEN register_token(o, addr, token_ctx[1]) ELSE o,
             ret |-> <<is_erc20, is_pair>>]

\* analyze_call that sets owed to the input's value instead of adding it
analyze_call_overwrites(m, input, fd) ==
    LET fd1 == IF input.txn_value # None
               THEN [fd EXCEPT !.owed = input.txn_value[1] * scale]
               ELSE fd
        addr == input.contract
        fd2 == IF addr \in m.erc20_address
               THEN [fd1 EXCEPT !.oracle_recheck_balance = @ \cup {addr}]
               ELSE fd1
    IN IF addr \in m.pair_address
       THEN [fd2 EXCEPT !.oracle_recheck_reserve = @ \cup {addr}]
       ELSE fd2

\* analyze_call that has the balance of every call target rechecked
analyze_call_any_target(m, input, fd) ==
    LET fd1 == IF input.txn_value # None
               THEN [fd EXCEPT !.owed = @ + input.txn_value[1] * scale]
               ELSE fd
        addr == input.contract
        fd2 == [fd1 EXCEPT !.oracle_recheck_balance = @ \cup {addr}]
    IN IF addr \in m.pair_address
       THEN [fd2 EXCEPT !.oracle_recheck_reserve = @ \cup {addr}]
       ELSE fd2

\* Flashloan::analyze_call
analyze_call(m, input, fd) ==
    LET fd1 == IF input.txn_value # None
               THEN [fd EXCEPT !.owed = @ + input.txn_value[1] * scale]
               ELSE fd
        addr == input.contract
        fd2 == IF addr \in m.erc20_address
               THEN [fd1 EXCEPT !.oracle_recheck_balance = @ \cup {addr}]
               ELSE fd1
    IN IF addr \in m.pair_address
       THEN [fd2 EXCEPT !.oracle_recheck_reserve = @ \cup {addr}]
       ELSE fd2

\* the opcodes on_step names
SSTORE == 85
CALL == 241
CALLCODE == 242
STATICCALL == 250
\* the storage key of a pair's packed reserves
ReserveSlot == 8

\* interp.stack.peek(n): n-th word from the top
peek(stack, n) == stack[n + 1]
\* convert_u256_to_h160: the low 160 bits of the word
convert_u256_to_h160(w) == w.lo

\* on_step that takes the call's value off earned instead of adding it
on_step_subtracts(m, cs, fd, op, contract_address, stack) ==
    IF op \in {CALL, STATICCALL}
    THEN LET value_transfer == IF op \in {CALL, CALLCODE} THEN peek(stack, 2) ELSE 0
             call_target == convert_u256_to_h160(peek(stack, 1))
             fd1 == IF value_transfer > 0 /\ call_target \in cs
                    THEN [fd EXCEPT !.earned = @ - value_transfer * scale]
                    ELSE fd
         IN IF call_target \in m.erc20_address
            THEN [fd1 EXCEPT !.oracle_recheck_balance = @ \cup {call_target}]
            ELSE fd1
    ELSE IF op = SSTORE
    THEN IF contract_address \in m.pair_address /\ peek(stack, 0) = ReserveSlot
         THEN [fd EXCEPT !.oracle_recheck_reserve = @ \cup {contract_address}]
         ELSE fd
    ELSE fd

\* on_step that takes every storage write of a pair for a write of its reserves
on_step_any_key(m, cs, fd, op, contract_address, stack) ==
    IF op \in {CALL, STATICCALL}
    THEN LET value_transfer == IF op \in {CALL, CALLCODE} THEN peek(stack, 2) ELSE 0
             call_target == convert_u256_to_h160(peek(stack, 1))
             fd1 == IF value_transfer > 0 /\ call_target \in cs
                    THEN [fd EXCEPT !.earned = @ + value_transfer * scale]
                    ELSE fd
         IN IF call_target \in m.erc20_address
            THEN [fd1 EXCEPT !.oracle_recheck_balance = @ \cup {call_target}]
            ELSE fd1
    ELSE IF op = SSTORE
    THEN IF contract_address \in m.pair_address
         THEN [fd EXCEPT !.oracle_recheck_reserve = @ \cup {contract_address}]
         ELSE fd
    ELSE fd

\* on_step that reads a value off the stack of a STATICCALL too
on_step_static_value(m, cs, fd, op, contract_address, stack) ==
    IF op \in {CALL, STATICCALL}
    THEN LET value_transfer == IF op \in {CALL, CALLCODE, STATICCALL} THEN peek(stack, 2) ELSE 0
             call_target == convert_u256_to_h160(peek(stack, 1))
             fd1 == IF value_transfer > 0 /\ call_target \in cs
                    THEN [fd EXCEPT !.earned = @ + value_transfer * scale]
                    ELSE fd
         IN IF call_target \in m.erc20_address
            THEN [fd1 EXCEPT !.oracle_recheck_balance = @ \cup {call_target}]
            ELSE fd1
    ELSE IF op = SSTORE
    THEN IF contract_address \in m.pair_address /\ peek(stack, 0) = ReserveSlot
         THEN [fd EXCEPT !.oracle_recheck_reserve = @ \cup {contract_address}]
         ELSE fd
    ELSE fd

\* Flashloan::on_step: the FlashloanData after the hook
on_step(m, cs, fd, op, contract_address, stack) ==
    IF op \in {CALL, STATICCALL}
    THEN LET value_transfer == IF op \in {CALL, CALLCODE} THEN peek(stack, 2) ELSE 0
             call_target == convert_u256_to_h160(peek(stack, 1))
             fd1 == IF value_transfer > 0 /\ call_target \in cs
                    THEN [fd EXCEPT !.earned = @ + value_transfer * scale]
                    ELSE fd
         IN IF call_target \in m.erc20_address
            THEN [fd1 EXCEPT !.oracle_recheck_balance = @ \cup {call_target}]
            ELSE fd1
    ELSE IF op = SSTORE
    THEN IF contract_address \in m.pair_address /\ peek(stack, 0) = ReserveSlot
         THEN [fd EXCEPT !.oracle_recheck_reserve = @ \cup {contract_address}]
         ELSE fd
    ELSE fd

(***************************************************************************)
(* The middleware at run time: contract insertions, analyze_call and       *)
(* on_step in any order, while the oracle's RefCell is borrowed and        *)
(* released by its other holders.                                          *)
(***************************************************************************)
\* inputs handed to analyze_call
AnalyzeInputs ==
    [input_type : {"ABI", "Borrow"}, contract : ContractAddrs,
     txn_value : {None} \cup {Some(v) : v \in 0..MaxValue}]

\* words read as a call target: a caller, a contract, a stranger, a caller under dirty upper bits
TargetWords ==
    {[hi |-> 0, lo |-> a] : a \in {"8EF508Aca04B32Ff3ba5003177cb18BfA6Cd79dd", "c1", Stranger}}
    \cup {[hi |-> 1, lo |-> "e1A425f1AC34A8a441566f93c82dD730639c8510"]}

\* interpreter states handed to on_step: storage writes, calls of every kind, anything else
StepInputs ==
    [op : {SSTORE}, contract_address : ContractAddrs,
     stack : {<<k, [hi |-> 0, lo |-> Stranger], 0>> : k \in {ReserveSlot, ReserveSlot + 1}}]
    \cup
    [op : {CALL, CALLCODE}, contract_address : {"c1"},
     stack : {<<0, w, v>> : w \in TargetWords, v \in 0..MaxValue}]
    \cup
    [op : {244, STATICCALL, 1}, contract_address : {"c1"},
     stack : {<<ReserveSlot, [hi |-> 0, lo |-> a], 1>> :
                 a \in {"8EF508Aca04B32Ff3ba5003177cb18BfA6Cd79dd", "c1"}}]

\* no off-chain configuration is in use
ChainIdle ==
    /\ offchain = [v2_pairs |-> {}, pair_cache |-> EmptyMap, reserves_cache |-> EmptyMap,
                   balance_cache |-> EmptyMap]
    /\ off_run = [status |-> "none", inits |-> 0, given |-> << >>, query |-> << >>,
                  result |-> << >>]
    /\ vm = [code |-> {}, answers |-> EmptyMap]
    /\ onchain = [chain_name |-> "", pairs |-> EmptyMap, reserves |-> EmptyMap]
    /\ info = [op |-> "none", calls |-> 0]
    /\ typed_bug_oracle = [address_to_name |-> EmptyMap]
    /\ ctx = [post_state |-> [typed_bug |-> << >>], fuzz_state |-> [artifact_info |-> FALSE]]
    /\ default_hasher = EmptyMap
    /\ bug_output = [status |-> "none", reports |-> << >>, returned |-> << >>]

\* the initializer has run and is out of the picture
Initialized ==
    /\ ChainIdle
    /\ pc = [op |-> "done", i |-> 0, j |-> 0]
    /\ loader = [contracts |-> << >>, setup_data |-> None]
    /\ evmstate = [balance |-> EmptyMap]
    /\ host = [code |-> EmptyMap, flashloan_middleware |-> TRUE]
    /\ state = NewFuzzState
    /\ scheduler = << >>
    /\ infant_scheduler = << >>
    /\ artifacts = None
    /\ blacklist_addr = None
    /\ chain = [abi_map |-> EmptyMap]
    /\ heimdall_calls = << >>

\* a fresh middleware, with or without a chain endpoint, and a fresh ledger
FlInit ==
    /\ callers = default_callers \cup contract_callers
    /\ \E endpoint \in {None, Some("bsc")} : middleware = NewFlashloan(endpoint)
    /\ flashloan_oracle = NewOracle
    /\ flashloan_data = NewFlashloanData
    /\ last = [op |-> "new"]
    /\ txn_values = 0
    /\ borrow_ran = FALSE
    /\ Initialized

\* another holder of the oracle's RefCell takes a mutable borrow
OracleBorrowed ==
    /\ ~flashloan_oracle.borrowed
    /\ flashloan_oracle' = [flashloan_oracle EXCEPT !.borrowed = TRUE]
    /\ last' = [op |-> "borrow_mut"]
    /\ UNCHANGED <<callers, middleware, flashloan_data, txn_values, borrow_ran, initVars, chainVars>>

\* and drops it
OracleReleased ==
    /\ flashloan_oracle.borrowed
    /\ flashloan_oracle' = [flashloan_oracle EXCEPT !.borrowed = FALSE]
    /\ last' = [op |-> "drop"]
    /\ UNCHANGED <<callers, middleware, flashloan_data, txn_values, borrow_ran, initVars, chainVars>>

DoContractInsertion(addr, abi) ==
    LET r == on_contract_insertion(middleware, flashloan_oracle, addr, abi)
    IN /\ middleware' = r.middleware
       /\ flashloan_oracle' = r.oracle
       /\ UNCHANGED <<callers, flashloan_data, txn_values, borrow_ran, initVars, chainVars>>

OnContractInsertion ==
    \E addr \in ContractAddrs, abi \in InsertionAbis :
        /\ DoContractInsertion(addr, abi)
        /\ last' = [op |-> "on_contract_insertion", addr |-> addr, abi |-> abi,
                    fresh |-> addr \notin middleware.known_addresses,
                    contended |-> flashloan_oracle.borrowed,
                    ret |-> on_contract_insertion(middleware, flashloan_oracle, addr, abi).ret]

DoAnalyzeCall(input) ==
    LET v == IF input.txn_value = None THEN 0 ELSE input.txn_value[1]
    IN /\ txn_values + v <= MaxLedger
       /\ flashloan_data' = analyze_call(middleware, input, flashloan_data)
       /\ txn_values' = txn_values + v
       /\ borrow_ran' = (borrow_ran \/ input.input_type = "Borrow")
       /\ UNCHANGED <<callers, middleware, flashloan_oracle, initVars, chainVars>>

AnalyzeCall ==
    \E input \in AnalyzeInputs :
        /\ DoAnalyzeCall(input)
        /\ last' = [op |-> "analyze_call", input |-> input]

DoStep(i) ==
    LET fd == on_step(middleware, callers, flashloan_data, i.op, i.contract_address, i.stack)
    IN /\ fd.earned <= MaxLedger * scale
       /\ flashloan_data' = fd
       /\ UNCHANGED <<callers, middleware, flashloan_oracle, txn_values, borrow_ran, initVars, chainVars>>

OnStep ==
    \E i \in StepInputs :
        /\ DoStep(i)
        /\ last' = [op |-> "on_step", interp |-> i]

(***************************************************************************)
(* Classification: contract insertions against a fresh middleware while    *)
(* the oracle is borrowed and released by its other holders.               *)
(***************************************************************************)
ClassifyNext == OracleBorrowed \/ OracleReleased \/ OnContractInsertion

SpecClassify == FlInit /\ [][ClassifyNext]_vars

(***************************************************************************)
(* The ledger: analyze_call and on_step in any order on one FlashloanData, *)
(* the middleware being what the insertion of the two contracts left.      *)
(***************************************************************************)
LedgerAbis == {<< >>, AbiErc20, AbiPair, AbiErc20 \o AbiPair}

LedgerInit ==
    /\ callers = default_callers \cup contract_callers
    /\ \E endpoint \in {None, Some("bsc")}, a1 \in LedgerAbis, a2 \in LedgerAbis :
          LET o0 == NewOracle
              r1 == on_contract_insertion(NewFlashloan(endpoint), o0, "c1", a1)
              r2 == on_contract_insertion(r1.middleware, r1.oracle, "c2", a2)
          IN /\ middleware = r2.middleware
             /\ flashloan_oracle = r2.oracle
    /\ flashloan_data = NewFlashloanData
    /\ last = [op |-> "new"]
    /\ txn_values = 0
    /\ borrow_ran = FALSE
    /\ Initialized

LedgerNext == AnalyzeCall \/ OnStep

SpecLedger == LedgerInit /\ [][LedgerNext]_vars

(***************************************************************************)
(* The middleware from its creation: contract insertions, analyze_call and *)
(* on_step in any order.                                                   *)
(***************************************************************************)
MiddlewareNext == OnContractInsertion \/ AnalyzeCall \/ OnStep

SpecMiddleware == FlInit /\ [][MiddlewareNext]_vars

(***************************************************************************)
(* corpus_initializer.rs                                                   *)
(*                                                                         *)
(* The U256 amounts of the initializer exceed TLC's integers: they         *)
(* are decimal numerals, sequences of digits.  A contract's code is what   *)
(* the initializer's collaborators make of it: whether its constructor     *)
(* runs through (ctor_ok) and the selectors extract_sig_from_contract      *)
(* finds in it (sigs).  A name is a sequence of pieces of text.            *)
(***************************************************************************)
\* pub const INITIAL_BALANCE: u128 = 100_000_000_000_000_000_000
INITIAL_BALANCE == <<1,0,0, 0,0,0, 0,0,0, 0,0,0, 0,0,0, 0,0,0, 0,0,0>>
\* EVMU256::ZERO
U256_ZERO == <<0>>
\* EVMU256::from_str on a decimal string: the numeral, without leading zeros
RECURSIVE from_str(_)
from_str(digits) ==
    IF Len(digits) > 1 /\ digits[1] = 0 THEN from_str(Tail(digits)) ELSE digits

\* Bytecode::new_raw
new_raw(bytes) == [raw |-> bytes]
\* vec![0xfd, 0x00]
RevertStub == <<253, 0>>
\* middlewares::cheatcode::CHEATCODE_ADDRESS
CHEATCODE_ADDRESS == "7109709ECfa91a80626fF3989D68f67F5b1DD12D"
\* executor.deployer
Deployer == "deployer"

\* state.add_caller, evmstate.set_balance, host.set_code, state.add_address
add_caller(cs, caller) == cs \cup {caller}
set_balance(es, addr, amount) == [es EXCEPT !.balance = Put(@, addr, amount)]
set_code(h, addr, code) == [h EXCEPT !.code = Put(@, addr, code)]
add_address(st, addr) == [st EXCEPT !.addresses = @ \cup {addr}]

\* executor.deploy: Some(address), the code installed there, or None when the
\* constructor fails
deploy(h, code, deployed_address) ==
    IF code.ctor_ok
    THEN [host |-> set_code(h, deployed_address, new_raw(code)), addr |-> Some(deployed_address)]
    ELSE [host |-> h, addr |-> None]

\* the loop of initialize_contract from contract i on: the contracts, the host and the
\* fuzz state it leaves
RECURSIVE deploy_from(_, _, _, _)
deploy_from(i, contracts, h, st) ==
    IF i > Len(contracts) THEN [contracts |-> contracts, host |-> h, state |-> st]
    ELSE LET contract == contracts[i]
         IN IF ~contract.is_code_deployed
            THEN LET d == deploy(h, contract.code, contract.deployed_address)
                 IN IF d.addr = None
                    THEN deploy_from(i + 1, contracts, h, st)
                    ELSE deploy_from(i + 1,
                                     [contracts EXCEPT ![i].deployed_address = d.addr[1]],
                                     d.host, add_address(st, d.addr[1]))
            ELSE deploy_from(i + 1, contracts,
                             set_code(h, contract.deployed_address, new_raw(contract.code)),
                             add_address(st, contract.deployed_address))

\* extract_sig_from_contract
extract_sig_from_contract(code) == code.sigs

\* the ABIs initialize_corpus pushes for the selectors ABIMap knows, in the order of sigs
known_abis(sigs, abi_map) ==
    LET known == SelectSeq(sigs, LAMBDA sig : sig \in DOMAIN abi_map)
    IN [i \in DOMAIN known |-> abi_map[known[i]]]

\* let mut unknown_sigs ... unknown_sigs += 1
unknown_sigs(sigs, abi_map) == Cardinality({i \in DOMAIN sigs : sigs[i] \notin DOMAIN abi_map})

\* if unknown_sigs >= sigs.len() / 30; first the variant that asks for strictly more
heimdall_needed_strict(sigs, abi_map) == unknown_sigs(sigs, abi_map) > Len(sigs) \div 30
heimdall_needed(sigs, abi_map) == unknown_sigs(sigs, abi_map) >= Len(sigs) \div 30

\* the ABIs taken from Heimdall's answer: the ABIMap version where there is one
heimdall_abis(answer, abi_map) ==
    [i \in DOMAIN answer |->
        IF answer[i].function \in DOMAIN abi_map THEN abi_map[answer[i].function]
        ELSE answer[i]]

\* ABI recovery of a contract without ABI: its ABI list afterwards
recover_abi(contract, abi_map, answer) ==
    LET sigs == extract_sig_from_contract(contract.code)
    IN IF heimdall_needed(sigs, abi_map)
       THEN heimdall_abis(answer, abi_map)
       ELSE contract.abi \o known_abis(sigs, abi_map)

\* name.trim_end_matches('*')
RECURSIVE trim_end_matches(_, _)
trim_end_matches(name, piece) ==
    IF Len(name) > 0 /\ name[Len(name)] = piece
    THEN trim_end_matches(SubSeq(name, 1, Len(name) - 1), piece)
    ELSE name

\* format!("{:?}", address)
debug_address(addr) == <<addr>>

\* the name recorded in address_to_name
display_name(contract) ==
    LET name == trim_end_matches(contract.name, "*")
    IN IF name # debug_address(contract.deployed_address)
       THEN name \o <<"(">> \o debug_address(contract.deployed_address) \o <<")">>
       ELSE name

\* the artifacts with the executor's state as initial state, setup data or not
new_artifacts_of_executor(ld, es) ==
    [address_to_sourcemap |-> EmptyMap, address_to_bytecode |-> EmptyMap,
     address_to_abi |-> EmptyMap, address_to_abi_object |-> EmptyMap,
     address_to_name |-> EmptyMap, build_artifacts |-> EmptyMap,
     initial_state |-> [state |-> es],
     initial_env |-> IF ld.setup_data # None THEN ld.setup_data[1].env ELSE "default"]
\* the artifacts initialize_corpus starts from
new_artifacts(ld, es) ==
    [address_to_sourcemap |-> EmptyMap, address_to_bytecode |-> EmptyMap,
     address_to_abi |-> EmptyMap, address_to_abi_object |-> EmptyMap,
     address_to_name |-> EmptyMap, build_artifacts |-> EmptyMap,
     initial_state |-> [state |-> IF ld.setup_data # None THEN ld.setup_data[1].evmstate ELSE es],
     initial_env |-> IF ld.setup_data # None THEN ld.setup_data[1].env ELSE "default"]

\* what initialize_corpus records of a contract
record_contract(a, contract, h) ==
    LET addr == contract.deployed_address
        code == IF addr \in DOMAIN h.code THEN h.code[addr].raw ELSE << >>
    IN [a EXCEPT !.address_to_sourcemap = Put(@, addr, contract.source_map),
                 !.address_to_abi = Put(@, addr, contract.abi),
                 !.address_to_bytecode = Put(@, addr, new_raw(code)),
                 !.address_to_name = Put(@, addr, display_name(contract)),
                 !.build_artifacts = IF contract.build_artifact # None
                                     THEN Put(@, addr, contract.build_artifact[1]) ELSE @]

\* wrap_input!
wrap_input(input) == [input |-> input, exec_time |-> 0]

\* corpus.add: the testcase is appended, its index is the number of entries before
corpus_add(corpus, tc) == [corpus |-> Append(corpus, tc), idx |-> Len(corpus)]

\* "10000000000000000000"
BorrowValue == <<1,0,0,0,0, 0,0,0,0,0, 0,0,0,0,0, 0,0,0,0,0>>
\* a tenth of it
BorrowValueTenth == <<1,0,0,0,0, 0,0,0,0,0, 0,0,0,0,0, 0,0,0,0>>

\* the input register_borrow_txn makes, for a value; the variant that borrows a tenth
\* comes first
borrow_input_with(value, caller, token) ==
    [input_type |-> "Borrow", caller |-> caller, contract |-> token, data |-> None,
     sstate |-> "default", sstate_idx |-> 0, txn_value |-> Some(from_str(value)),
     step |-> FALSE, env |-> "default", liquidation_percent |-> 0,
     direct_data |-> << >>, randomness |-> <<0>>, repeat |-> 1]
borrow_input_tenth(caller, token) == borrow_input_with(BorrowValueTenth, caller, token)
borrow_input(caller, token) == borrow_input_with(BorrowValue, caller, token)

\* register_borrow_txn, caller being what get_rand_caller drew
register_borrow_txn(sched, st, token, caller) ==
    LET added == corpus_add(st.corpus, wrap_input(borrow_input(caller, token)))
    IN [state |-> [st EXCEPT !.corpus = added.corpus],
        scheduler |-> Append(sched, [call |-> "on_add", idx |-> added.idx])]

\* Flashloan::on_pair_insertion, slots being what find_static_call_read_slot read
on_pair_insertion(o, pair, slots) ==
    IF Len(slots) = 3 THEN [o EXCEPT !.reserve_slots = Put(@, pair, slots[1])] ELSE o

\* handle_contract_insertion!
handle_contract_insertion(h, m, o, st, sched, deployed_address, abi, caller, slots) ==
    LET r == IF h.flashloan_middleware
             THEN on_contract_insertion(m, o, deployed_address, abi)
             ELSE [middleware |-> m, oracle |-> o, ret |-> <<FALSE, FALSE>>]
        b == IF r.ret[1]
             THEN register_borrow_txn(sched, st, deployed_address, caller)
             ELSE [state |-> st, scheduler |-> sched]
    IN [middleware |-> r.middleware,
        oracle |-> IF r.ret[2] THEN on_pair_insertion(r.oracle, deployed_address, slots)
                   ELSE r.oracle,
        state |-> b.state, scheduler |-> b.scheduler, ret |-> r.ret]

\* str::starts_with, over the function names of the model: a prefix and one of their ends
NameEnds == {"", "x", "supply", "Of"}
starts_with(name, prefix) == \E end \in NameEnds : name = prefix \o end

\* the functions initialize_corpus does not hand to add_abi; first without setUp
skipped_name_but_set_up(name) ==
    \/ starts_with(name, "invariant_") \/ starts_with(name, "echidna_")
    \/ name = "failed"
skipped_name(name) ==
    \/ starts_with(name, "invariant_") \/ starts_with(name, "echidna_")
    \/ name = "setUp" \/ name = "failed"

\* add_abi with a value of zero for every function
add_abi_with_value(st, sched, art, abi, deployed_address, caller) ==
    IF abi.is_constructor THEN [state |-> st, scheduler |-> sched, artifacts |-> art]
    ELSE LET addrs == IF abi.function \in DOMAIN st.hash_to_address
                      THEN st.hash_to_address[abi.function] ELSE {}
             st1 == [st EXCEPT !.hash_to_address =
                                    Put(@, abi.function, addrs \cup {deployed_address})]
         IN IF abi.is_static
            THEN [state |-> st1, scheduler |-> sched, artifacts |-> art]
            ELSE LET abi_instance == [function |-> abi.function,
                                      function_name |-> abi.function_name]
                     objects == IF deployed_address \in DOMAIN art.address_to_abi_object
                                THEN art.address_to_abi_object[deployed_address] ELSE << >>
                     art1 == [art EXCEPT !.address_to_abi_object =
                                 Put(@, deployed_address, Append(objects, abi_instance))]
                     input ==
                         [input_type |-> "ABI", caller |-> caller,
                          contract |-> deployed_address,
                          data |-> IF abi.function_name # "!receive!"
                                   THEN Some(abi_instance) ELSE None,
                          sstate |-> "uninitialized", sstate_idx |-> 0,
                          txn_value |-> Some(U256_ZERO),
                          step |-> FALSE, env |-> art.initial_env,
                          liquidation_percent |-> 0, direct_data |-> << >>,
                          randomness |-> <<0>>, repeat |-> 1]
                     added == corpus_add(st1.corpus, wrap_input(input))
                 IN [state |-> [st1 EXCEPT !.corpus = added.corpus],
                     scheduler |-> Append(sched, [call |-> "on_add_artifacts",
                                                  idx |-> added.idx]),
                     artifacts |-> art1]
\* add_abi, caller being what get_rand_caller drew (features fuzz_static, use_presets
\* and print_txn_corpus off)
add_abi(st, sched, art, abi, deployed_address, caller) ==
    IF abi.is_constructor THEN [state |-> st, scheduler |-> sched, artifacts |-> art]
    ELSE LET addrs == IF abi.function \in DOMAIN st.hash_to_address
                      THEN st.hash_to_address[abi.function] ELSE {}
             st1 == [st EXCEPT !.hash_to_address =
                                    Put(@, abi.function, addrs \cup {deployed_address})]
         IN IF abi.is_static
            THEN [state |-> st1, scheduler |-> sched, artifacts |-> art]
            ELSE LET abi_instance == [function |-> abi.function,
                                      function_name |-> abi.function_name]
                     objects == IF deployed_address \in DOMAIN art.address_to_abi_object
                                THEN art.address_to_abi_object[deployed_address] ELSE << >>
                     art1 == [art EXCEPT !.address_to_abi_object =
                                 Put(@, deployed_address, Append(objects, abi_instance))]
                     input ==
                         [input_type |-> "ABI", caller |-> caller,
                          contract |-> deployed_address,
                          data |-> IF abi.function_name # "!receive!"
                                   THEN Some(abi_instance) ELSE None,
                          sstate |-> "uninitialized", sstate_idx |-> 0,
                          txn_value |-> IF abi.is_payable THEN Some(U256_ZERO) ELSE None,
                          step |-> FALSE, env |-> art.initial_env,
                          liquidation_percent |-> 0, direct_data |-> << >>,
                          randomness |-> <<0>>, repeat |-> 1]
                     added == corpus_add(st1.corpus, wrap_input(input))
                 IN [state |-> [st1 EXCEPT !.corpus = added.corpus],
                     scheduler |-> Append(sched, [call |-> "on_add_artifacts",
                                                  idx |-> added.idx]),
                     artifacts |-> art1]

(***************************************************************************)
(* EVMCorpusInitializer::initialize, call by call; the two loops of        *)
(* initialize_corpus go contract by contract and ABI by ABI.               *)
(***************************************************************************)
At(op) == [op |-> op, i |-> 0, j |-> 0]

\* self.state.metadata_map_mut().insert(ABIMap::new())
InstallABIMap ==
    /\ pc = At("initialize")
    /\ state' = [state EXCEPT !.metadata = Some(EmptyMap)]
    /\ pc' = At("setup_default_callers")
    /\ last' = [op |-> "initialize"]
    /\ UNCHANGED <<callers, middleware, flashloan_oracle, flashloan_data, txn_values,
                   borrow_ran, loader, evmstate, host, scheduler, infant_scheduler,
                   artifacts, blacklist_addr, chain, heimdall_calls, chainVars>>

\* the same with the stub as code of every caller, whatever the set
setup_callers_coded(todo, with_code, cs, es, h) ==
    [callers |-> cs \cup todo,
     evmstate |-> [es EXCEPT !.balance =
                      [c \in DOMAIN es.balance \cup todo |->
                          IF c \in todo THEN INITIAL_BALANCE ELSE es.balance[c]]],
     host |-> [h EXCEPT !.code =
                  [c \in DOMAIN h.code \cup todo |->
                      IF c \in todo THEN new_raw(RevertStub) ELSE h.code[c]]]]

\* registering the callers of a set, each with the initial balance; those of
\* setup_contract_callers with the reverting stub as code
RECURSIVE setup_callers(_, _, _, _, _)
setup_callers(todo, with_code, cs, es, h) ==
    IF todo = {} THEN [callers |-> cs, evmstate |-> es, host |-> h]
    ELSE LET caller == CHOOSE c \in todo : TRUE
         IN setup_callers(todo \ {caller}, with_code, add_caller(cs, caller),
                          set_balance(es, caller, INITIAL_BALANCE),
                          IF with_code THEN set_code(h, caller, new_raw(RevertStub)) ELSE h)

SetupDefaultCallers ==
    /\ pc = At("setup_default_callers")
    /\ LET r == setup_callers(default_callers, FALSE, callers, evmstate, host)
       IN /\ callers' = r.callers
          /\ evmstate' = r.evmstate
          /\ host' = r.host
    /\ pc' = At("setup_contract_callers")
    /\ last' = [op |-> "setup_default_callers"]
    /\ UNCHANGED <<middleware, flashloan_oracle, flashloan_data, txn_values, borrow_ran,
                   loader, state, scheduler, infant_scheduler, artifacts, blacklist_addr,
                   chain, heimdall_calls, chainVars>>

SetupContractCallers ==
    /\ pc = At("setup_contract_callers")
    /\ LET r == setup_callers(contract_callers, TRUE, callers, evmstate, host)
       IN /\ callers' = r.callers
          /\ evmstate' = r.evmstate
          /\ host' = r.host
    /\ pc' = At("init_cheatcode_contract")
    /\ last' = [op |-> "setup_contract_callers"]
    /\ UNCHANGED <<middleware, flashloan_oracle, flashloan_data, txn_values, borrow_ran,
                   loader, state, scheduler, infant_scheduler, artifacts, blacklist_addr,
                   chain, heimdall_calls, chainVars>>

InitCheatcodeContract ==
    /\ pc = At("init_cheatcode_contract")
    /\ host' = set_code(host, CHEATCODE_ADDRESS, new_raw(RevertStub))
    /\ pc' = At("initialize_contract")
    /\ last' = [op |-> "init_cheatcode_contract"]
    /\ UNCHANGED <<callers, middleware, flashloan_oracle, flashloan_data, txn_values,
                   borrow_ran, loader, evmstate, state, scheduler, infant_scheduler,
                   artifacts, blacklist_addr, chain, heimdall_calls, chainVars>>

\* initialize_contract; running and loading the code brings into ABIMap what the
\* chain knows of it
InitializeContract ==
    /\ pc = At("initialize_contract")
    /\ LET r == deploy_from(1, loader.contracts, host, state)
       IN /\ loader' = [loader EXCEPT !.contracts = r.contracts]
          /\ host' = r.host
          /\ state' = [r.state EXCEPT !.metadata = Some(chain.abi_map)]
    /\ evmstate' = set_balance(evmstate, Deployer, INITIAL_BALANCE)
    /\ pc' = At("initialize_corpus")
    /\ last' = [op |-> "initialize_contract"]
    /\ UNCHANGED <<callers, middleware, flashloan_oracle, flashloan_data, txn_values,
                   borrow_ran, scheduler, infant_scheduler, artifacts, blacklist_addr,
                   chain, heimdall_calls, chainVars>>

\* where the loops of initialize_corpus stand once ABI j of contract i is due
loop_at(contracts, i, j, skip) ==
    IF i > Len(contracts) THEN At("seed")
    ELSE IF skip \/ j > Len(contracts[i].abi)
    THEN IF i = Len(contracts) THEN At("seed") ELSE [op |-> "contract", i |-> i + 1, j |-> 0]
    ELSE [op |-> "abi", i |-> i, j |-> j]

\* the artifacts are created
BeginCorpus ==
    /\ pc = At("initialize_corpus")
    /\ artifacts' = Some(new_artifacts(loader, evmstate))
    /\ pc' = IF Len(loader.contracts) = 0 THEN At("seed")
             ELSE [op |-> "contract", i |-> 1, j |-> 0]
    /\ last' = [op |-> "initialize_corpus"]
    /\ UNCHANGED <<callers, middleware, flashloan_oracle, flashloan_data, txn_values,
                   borrow_ran, loader, evmstate, host, state, scheduler, infant_scheduler,
                   blacklist_addr, chain, heimdall_calls, chainVars>>

\* what fetch_abi_heimdall may answer for a code: nothing (the service failed), every
\* selector of the code as an unresolved view function, or one function that can be called
HeimdallAnswers(code) ==
    LET sigs == extract_sig_from_contract(code)
    IN {<< >>,
        [i \in DOMAIN sigs |-> Fn(sigs[i], "Unresolved", TRUE, FALSE, FALSE)],
        <<Fn(IF Len(sigs) > 0 THEN sigs[1] ELSE 0, "Unresolved", FALSE, TRUE, FALSE)>>}

\* what find_static_call_read_slot may read of a pair's getReserves
ReadSlots == {<<ReserveSlot, 6, 7>>, <<ReserveSlot>>}

\* the body of the loop over the contracts up to the loop over the ABIs: ABI recovery,
\* the artifacts, handle_contract_insertion! and the blacklist
CorpusContract ==
    /\ pc.op = "contract"
    /\ LET i == pc.i
           c0 == loader.contracts[i]
           abi_map == state.metadata[1]
           needed == c0.abi = << >>
                     /\ heimdall_needed(extract_sig_from_contract(c0.code), abi_map)
       IN \E answer \in IF needed THEN HeimdallAnswers(c0.code) ELSE {<< >>},
             caller \in callers, slots \in ReadSlots :
            LET contract == IF c0.abi = << >>
                            THEN [c0 EXCEPT !.abi = recover_abi(c0, abi_map, answer)]
                            ELSE c0
                addr == contract.deployed_address
                r == handle_contract_insertion(host, middleware, flashloan_oracle, state,
                                               scheduler, addr, contract.abi, caller, slots)
                blacklisted == blacklist_addr # None /\ addr \in blacklist_addr[1]
            IN /\ loader' = [loader EXCEPT !.contracts[i] = contract]
               /\ heimdall_calls' = IF needed
                                    THEN Append(heimdall_calls, [code |-> c0.code,
                                                                 answer |-> answer])
                                    ELSE heimdall_calls
               /\ artifacts' = Some(record_contract(artifacts[1], contract, host))
               /\ middleware' = r.middleware
               /\ flashloan_oracle' = r.oracle
               /\ state' = r.state
               /\ scheduler' = r.scheduler
               /\ pc' = loop_at(loader'.contracts, i, 1, blacklisted)
               /\ last' = [op |-> "contract", i |-> i, recovered |-> c0.abi = << >>,
                           heimdall |-> needed, answer |-> answer, ret |-> r.ret,
                           blacklisted |-> blacklisted]
    /\ UNCHANGED <<callers, flashloan_data, txn_values, borrow_ran, evmstate, host,
                   infant_scheduler, blacklist_addr, chain,
                   chainVars>>

\* whether the turn of the loop for an ABI draws a caller: add_abi gets to make an input
draws_caller(abi) ==
    ~skipped_name(abi.function_name) /\ ~abi.is_constructor /\ ~abi.is_static

\* the turns j..k of the loop over the ABIs when none of them draws a caller: add_abi
\* enters the address under the selector of each ABI it gets that is no constructor
no_draw_turns(st, contract, j, k) ==
    LET h == st.hash_to_address
        sigs == {contract.abi[n].function :
                    n \in {m \in j..k : /\ ~skipped_name(contract.abi[m].function_name)
                                        /\ ~contract.abi[m].is_constructor}}
    IN [st EXCEPT !.hash_to_address =
           [sig \in DOMAIN h \cup sigs |->
               (IF sig \in DOMAIN h THEN h[sig] ELSE {})
               \cup (IF sig \in sigs THEN {contract.deployed_address} ELSE {})]]

\* the loop over the ABIs of a contract from ABI j on, up to and including the next
\* turn that draws a caller, caller being what get_rand_caller draws then
abi_loop(st, sched, art, contract, j, caller) ==
    LET draws == {n \in j..Len(contract.abi) : draws_caller(contract.abi[n])}
    IN IF draws = {}
       THEN [state |-> no_draw_turns(st, contract, j, Len(contract.abi)),
             scheduler |-> sched, artifacts |-> art, j |-> Len(contract.abi) + 1]
       ELSE LET d == CHOOSE n \in draws : \A m \in draws : n <= m
                r == add_abi(no_draw_turns(st, contract, j, d - 1), sched, art,
                             contract.abi[d], contract.deployed_address, caller)
            IN [state |-> r.state, scheduler |-> r.scheduler,
                artifacts |-> r.artifacts, j |-> d + 1]

\* the loop over the ABIs of a contract, from one draw of a caller to the next
CorpusAbi ==
    /\ pc.op = "abi"
    /\ LET contract == loader.contracts[pc.i]
       IN \E caller \in callers :
            LET r == abi_loop(state, scheduler, artifacts[1], contract, pc.j, caller)
            IN /\ state' = r.state
               /\ scheduler' = r.scheduler
               /\ artifacts' = Some(r.artifacts)
               /\ pc' = loop_at(loader.contracts, pc.i, r.j, FALSE)
               /\ last' = [op |-> "abi", i |-> pc.i, j |-> pc.j, next |-> r.j]
    /\ UNCHANGED <<callers, middleware, flashloan_oracle, flashloan_data, txn_values,
                   borrow_ran, loader, evmstate, host, infant_scheduler, blacklist_addr,
                   chain, heimdall_calls, chainVars>>

\* the initial state goes into the infant corpus
SeedInfantCorpus ==
    /\ pc = At("seed")
    /\ LET tc == [input |-> artifacts[1].initial_state, exec_time |-> 0]
           added == corpus_add(state.infant_states_state.corpus, tc)
       IN /\ state' = [state EXCEPT !.infant_states_state.corpus = added.corpus]
          /\ infant_scheduler' = Append(infant_scheduler,
                                        [call |-> "on_add", idx |-> added.idx])
    /\ pc' = At("done")
    /\ last' = [op |-> "seed"]
    /\ UNCHANGED <<callers, middleware, flashloan_oracle, flashloan_data, txn_values,
                   borrow_ran, loader, evmstate, host, scheduler, artifacts,
                   blacklist_addr, chain, heimdall_calls, chainVars>>

InitializeNext ==
    \/ InstallABIMap \/ SetupDefaultCallers \/ SetupContractCallers
    \/ InitCheatcodeContract \/ InitializeContract \/ BeginCorpus
    \/ CorpusContract \/ CorpusAbi \/ SeedInfantCorpus

\* the initializer before initialize, for a loader, a chain and a host
Uninitialized(contracts, setup_data, abi_map, has_middleware, endpoint, blacklist) ==
    /\ ChainIdle
    /\ pc = At("initialize")
    /\ callers = {}
    /\ middleware = NewFlashloan(endpoint)
    /\ flashloan_oracle = NewOracle
    /\ flashloan_data = NewFlashloanData
    /\ last = [op |-> "new"]
    /\ txn_values = 0
    /\ borrow_ran = FALSE
    /\ loader = [contracts |-> contracts, setup_data |-> setup_data]
    /\ evmstate = [balance |-> EmptyMap]
    /\ host = [code |-> EmptyMap, flashloan_middleware |-> has_middleware]
    /\ state = NewFuzzState
    /\ scheduler = << >>
    /\ infant_scheduler = << >>
    /\ artifacts = None
    /\ blacklist_addr = blacklist
    /\ chain = [abi_map |-> abi_map]
    /\ heimdall_calls = << >>

\* ContractInfo
Contract(name, code, abi, is_code_deployed, deployed_address, build_artifact) ==
    [name |-> name, code |-> code, abi |-> abi, is_code_deployed |-> is_code_deployed,
     deployed_address |-> deployed_address, source_map |-> None,
     build_artifact |-> build_artifact]

\* the sequences of at most n elements of a set
RECURSIVE SeqsUpTo(_, _)
SeqsUpTo(S, n) ==
    IF n = 0 THEN {<< >>}
    ELSE LET shorter == SeqsUpTo(S, n - 1)
         IN shorter \cup {Append(q, x) : q \in {p \in shorter : Len(p) = n - 1}, x \in S}

(***************************************************************************)
(* ABI recovery: the initializer on contracts that come without ABI, the   *)
(* chain knowing the selectors above some number.                          *)
(***************************************************************************)
\* the selectors 1..n
Selectors(n) == [i \in 1..n |-> i]
\* the numbers of selectors of a code, and the numbers of them ABIMap does not know
SigCounts == {0, 1, 30, 100}
UnknownCounts == {0, 1, 4, 20}
\* ABIMap knowing the selectors above u
AbiMapAbove(u) == [sig \in (u + 1)..MaxSelector |-> Fn(sig, "mapped", TRUE, FALSE, FALSE)]

\* a contract without ABI, already deployed, whose code has n selectors
UnverifiedAt(a, n) ==
    Contract(<<"0x", a>>, [ctor_ok |-> TRUE, sigs |-> Selectors(n)], << >>, TRUE, a, None)
\* the small codes live at one address, the large ones at the other
Unverified == {UnverifiedAt(IF n <= 30 THEN "c1" ELSE "c2", n) : n \in SigCounts}

RecoverInit ==
    \E contracts \in SeqsUpTo(Unverified, MaxUnverified), u \in UnknownCounts :
        Uninitialized(contracts, None, AbiMapAbove(u), TRUE, Some("bsc"), None)

SpecRecover == RecoverInit /\ [][InitializeNext]_vars

(***************************************************************************)
(* Seeding: the initializer on a loader of contracts that come with their  *)
(* ABI, with and without flash-loan middleware, chain endpoint, blacklist  *)
(* and setup data.                                                         *)
(***************************************************************************)
\* a token whose transfer alone changes state, to be deployed
SeedToken ==
    Contract(<<"Token", "*">>, [ctor_ok |-> TRUE, sigs |-> Selectors(4)],
             <<Fn(1, "balanceOf", TRUE, FALSE, FALSE), Fn(2, "transfer", FALSE, FALSE, FALSE),
               Fn(3, "transferFrom", TRUE, FALSE, FALSE), Fn(4, "approve", TRUE, FALSE, FALSE)>>,
             FALSE, "c1", None)
\* a pair that is deployed already and is named by its address
SeedPair ==
    Contract(debug_address("c2"), [ctor_ok |-> TRUE, sigs |-> <<5, 6, 7>>],
             <<Fn(5, "skim", TRUE, FALSE, FALSE), Fn(6, "sync", TRUE, FALSE, FALSE),
               Fn(7, "swap", FALSE, TRUE, FALSE)>>,
             TRUE, "c2", None)
\* a test harness at the token's address, with a build artifact
SeedHarness ==
    Contract(<<"Harness">>, [ctor_ok |-> TRUE, sigs |-> <<8, 9, 10, 11, 12, 13>>],
             <<Fn(0, "constructor", FALSE, FALSE, TRUE), Fn(8, "setUp", FALSE, FALSE, FALSE),
               Fn(9, "invariant_supply", FALSE, FALSE, FALSE),
               Fn(10, "echidna_x", TRUE, FALSE, FALSE), Fn(11, "failed", TRUE, FALSE, FALSE),
               Fn(12, "!receive!", FALSE, TRUE, FALSE), Fn(13, "totalSupply", TRUE, FALSE, FALSE),
               Fn(2, "transfer", FALSE, FALSE, FALSE)>>,
             FALSE, "c1", Some("Harness.json"))
\* a contract whose constructor fails
SeedFailing ==
    Contract(<<"Failing">>, [ctor_ok |-> FALSE, sigs |-> <<2>>],
             <<Fn(2, "transfer", FALSE, FALSE, FALSE)>>, FALSE, "c2", None)

SeedContracts == <<SeedPair, SeedToken, SeedHarness, SeedFailing>>

\* the loaders: at most MaxContracts of the contracts, in their order
Loaders ==
    {SelectSeq(SeedContracts, LAMBDA c : c \in chosen) :
        chosen \in {s \in SUBSET {SeedContracts[n] : n \in DOMAIN SeedContracts} :
                       Cardinality(s) <= MaxContracts}}

\* what the setup of a test harness leaves
SetupData == [evmstate |-> [balance |-> Put(EmptyMap, Stranger, U256_ZERO)], env |-> "setup"]

SeedInit ==
    \E contracts \in Loaders, setup_data \in {None, Some(SetupData)},
       has_middleware \in BOOLEAN, endpoint \in {None, Some("bsc")},
       blacklist \in {None, Some({"c1"})} :
        /\ ~has_middleware => endpoint = None
        /\ Uninitialized(contracts, setup_data, EmptyMap, has_middleware, endpoint, blacklist)

SpecInit == SeedInit /\ [][InitializeNext]_vars

(***************************************************************************)
(* onchain/offchain.rs                                                     *)
(*                                                                         *)
(* Return data is a sequence of 32-byte words.  A word read as an address  *)
(* is [hi, lo], its upper 12 and lower 20 bytes; a word read as a number   *)
(* is that number.  The text of an address is one piece of text.           *)
(***************************************************************************)
\* const WETH
WETH == "4200000000000000000000000000000000000006"

\* OffChainConfig::new
NewOffChainConfig(v2_pairs) ==
    [v2_pairs |-> {v2_pairs[n] : n \in DOMAIN v2_pairs}, pair_cache |-> EmptyMap,
     reserves_cache |-> EmptyMap, balance_cache |-> EmptyMap]

\* token0(), token1(), getReserves(), decimals(), balanceOf(addr)
token0_input == [sel |-> "0dfe1681", arg |-> ""]
token1_input == [sel |-> "d21220a7", arg |-> ""]
get_reserves_input == [sel |-> "0902f1ac", arg |-> ""]
decimals_input == [sel |-> "313ce567", arg |-> ""]
balance_of_input(addr) == [sel |-> "70a08231", arg |-> addr]

\* OffChainConfig::call: Ok with the return data of a static call that succeeds, Err of
\* one that does not
call(v, input, target) ==
    LET ir == v.answers[<<target, input>>]
    IN IF ~ir.success THEN [ok |-> FALSE, value |-> << >>]
       ELSE [ok |-> TRUE, value |-> ir.return_value]

\* EVMAddress::from_slice(&res[12..32]), res[31] as u32
from_slice(word) == word.lo
last_byte(word) == word % 256
\* EVMU256::try_from_be_slice(..).unwrap_or_default() of a whole return value: more than
\* 32 bytes do not fit
try_from_be_slice_or_default(res) ==
    IF Len(res) = 0 THEN 0 ELSE IF Len(res) = 1 THEN res[1] ELSE 0

\* OffChainConfig::get_pegged_token
get_pegged_token == [name \in {"WETH"} |-> debug_address(WETH)]

\* build_pair_cache that names the input token as next on either side
build_pair_cache_same_next(cfg, token, pair) ==
    LET in_token == debug_address(token)
        entry == [pair EXCEPT !.in_ = IF in_token = pair.token0 THEN 0 ELSE 1,
                              !.next = in_token,
                              !.in_token = in_token,
                              !.interface = "uniswapv2",
                              !.src_exact = "uniswapv2_eth",
                              !.src = IF \E name \in DOMAIN get_pegged_token :
                                            get_pegged_token[name] = in_token
                                      THEN "pegged" ELSE "lp"]
        entries == IF token \in DOMAIN cfg.pair_cache THEN cfg.pair_cache[token] ELSE << >>
    IN [cfg EXCEPT !.pair_cache = Put(@, token, Append(entries, entry))]

\* OffChainConfig::build_pair_cache
build_pair_cache(cfg, token, pair) ==
    LET in_token == debug_address(token)
        entry == [pair EXCEPT !.in_ = IF in_token = pair.token0 THEN 0 ELSE 1,
                              !.next = IF in_token = pair.token0 THEN pair.token1
                                       ELSE in_token,
                              !.in_token = in_token,
                              !.interface = "uniswapv2",
                              !.src_exact = "uniswapv2_eth",
                              !.src = IF \E name \in DOMAIN get_pegged_token :
                                            get_pegged_token[name] = in_token
                                      THEN "pegged" ELSE "lp"]
        entries == IF token \in DOMAIN cfg.pair_cache THEN cfg.pair_cache[token] ELSE << >>
    IN [cfg EXCEPT !.pair_cache = Put(@, token, Append(entries, entry))]

\* PairData { pair, token0, token1, decimals_0, decimals_1, initial_reserves_0,
\* initial_reserves_1, ..Default::default() }
NewPairData(pair, token0, token1, decimals_0, decimals_1, reserves0, reserves1) ==
    [pair |-> debug_address(pair), token0 |-> debug_address(token0),
     token1 |-> debug_address(token1), decimals_0 |-> decimals_0,
     decimals_1 |-> decimals_1, initial_reserves_0 |-> reserves0,
     initial_reserves_1 |-> reserves1, in_ |-> 0, next |-> << >>, in_token |-> << >>,
     interface |-> "", src |-> "", src_exact |-> ""]

\* how a build_cache ends: Ok with the caches filled, Err with the caches as they were,
\* or a panic on a slice of return data that is too short
Built(status, cfg) == [status |-> status, config |-> cfg]

\* build_cache once the tokens, their codes and decimals are read: reserves, balances,
\* the entries of the caches
build_cache_tail(cfg, pair, v, token0, decimals_0, token1, decimals_1) ==
    LET reserves == call(v, get_reserves_input, pair)
    IN IF ~reserves.ok THEN Built("err", cfg)
       ELSE IF Len(reserves.value) < 2 THEN Built("panic", cfg)
       ELSE
       LET reserves0 == reserves.value[1]
           reserves1 == reserves.value[2]
           b0 == call(v, balance_of_input(pair), token0)
           b1 == call(v, balance_of_input(pair), token1)
       IN IF ~b0.ok \/ ~b1.ok THEN Built("err", cfg)
          ELSE
          LET balance0 == try_from_be_slice_or_default(b0.value)
              balance1 == try_from_be_slice_or_default(b1.value)
              pair_data == NewPairData(pair, token0, token1, decimals_0, decimals_1,
                                       reserves0, reserves1)
              c1 == build_pair_cache(cfg, token0, pair_data)
              c2 == build_pair_cache(c1, token1, pair_data)
              c3 == [c2 EXCEPT !.reserves_cache = Put(@, pair, <<reserves0, reserves1>>)]
              c4 == [c3 EXCEPT !.balance_cache = Put(@, <<pair, token0>>, balance0)]
          IN Built("ok", [c4 EXCEPT !.balance_cache = Put(@, <<pair, token1>>, balance1)])

\* the token a pair names with a probe, and its decimals
read_token(v, input, pair) ==
    LET res == call(v, input, pair)
    IN IF ~res.ok THEN [status |-> "err"]
       ELSE IF Len(res.value) < 1 THEN [status |-> "panic"]
       ELSE
       LET token == from_slice(res.value[1])
       IN IF token \notin v.code THEN [status |-> "err"]
          ELSE
          LET dec == call(v, decimals_input, token)
          IN IF ~dec.ok THEN [status |-> "err"]
             ELSE IF Len(dec.value) < 1 THEN [status |-> "panic"]
             ELSE [status |-> "ok", token |-> token, decimals |-> last_byte(dec.value[1])]

\* OffChainConfig::build_cache
build_cache(cfg, pair, v) ==
    IF pair \notin v.code THEN Built("err", cfg)
    ELSE LET t0 == read_token(v, token0_input, pair)
         IN IF t0.status # "ok" THEN Built(t0.status, cfg)
            ELSE LET t1 == read_token(v, token1_input, pair)
                 IN IF t1.status # "ok" THEN Built(t1.status, cfg)
                    ELSE build_cache_tail(cfg, pair, v, t0.token, t0.decimals,
                                          t1.token, t1.decimals)

\* initialize that builds the cache of every pair twice
RECURSIVE initialize_in_twice(_, _, _)
initialize_in_twice(cfg, order, v) ==
    IF order = << >> THEN Built("ok", cfg)
    ELSE LET b == build_cache(cfg, Head(order), v)
             bb == build_cache(b.config, Head(order), v)
         IN IF bb.status # "ok" THEN bb ELSE initialize_in_twice(bb.config, Tail(order), v)

\* OffChainConfig::initialize, the set being iterated in some order: the first build_cache
\* that does not end Ok ends the loop
RECURSIVE initialize_in(_, _, _)
initialize_in(cfg, order, v) ==
    IF order = << >> THEN Built("ok", cfg)
    ELSE LET b == build_cache(cfg, Head(order), v)
         IN IF b.status # "ok" THEN b ELSE initialize_in(b.config, Tail(order), v)

\* the orders a HashSet may be iterated in
RECURSIVE Orders(_)
Orders(S) ==
    IF S = {} THEN {<< >>} ELSE UNION {{<<x>> \o o : o \in Orders(S \ {x})} : x \in S}

\* ChainConfig::get_pair, fetch_reserve, get_token_balance
\* (first get_token_balance looking up (token, address))
get_token_balance_token_first(cfg, token, address) ==
    IF <<token, address>> \in DOMAIN cfg.balance_cache
    THEN cfg.balance_cache[<<token, address>>] ELSE 0
address_from_str(text) == text[1]
RECURSIVE to_string(_)
to_string(n) == IF n < 10 THEN <<n>> ELSE Append(to_string(n \div 10), n % 10)
get_pair(cfg, token) ==
    LET t == address_from_str(token)
    IN IF t \in DOMAIN cfg.pair_cache THEN cfg.pair_cache[t] ELSE << >>
fetch_reserve(cfg, pair) ==
    LET p == address_from_str(pair)
    IN IF p \in DOMAIN cfg.reserves_cache
       THEN Some(<<to_string(cfg.reserves_cache[p][1]), to_string(cfg.reserves_cache[p][2])>>)
       ELSE None
get_token_balance(cfg, token, address) ==
    IF <<address, token>> \in DOMAIN cfg.balance_cache
    THEN cfg.balance_cache[<<address, token>>] ELSE 0

(***************************************************************************)
(* The off-chain configuration in use: new over a list of pairs,           *)
(* initialize on an executor whose contracts answer the probes like        *)
(* Uniswap v2 pairs and their tokens, or fail to at one place, and the     *)
(* queries of ChainConfig.                                                 *)
(***************************************************************************)
PairAddrs == {"p1", "p2"}
TokenAddrs == {WETH, "t1", "t2"}

\* what the static calls return when every contract is what it should be, tokens(p) being
\* the two tokens of pair p; the second pair returns its addresses under dirty upper bytes
GoodVm(tokens) ==
    LET returned(words) == [success |-> TRUE, return_value |-> words]
        dirt(p) == IF p = "p1" THEN 0 ELSE 1
        reserves(p) == IF p = "p1" THEN <<1200, 5, 77>> ELSE <<0, 30, 77>>
        decimals(t) == IF t = "t1" THEN 6 ELSE 18
        balance(t, p) == (IF t = WETH THEN 1000 ELSE IF t = "t1" THEN 20 ELSE 0)
                         + (IF p = "p1" THEN 1 ELSE 0)
        pair_keys == {<<p, i>> : p \in PairAddrs,
                                 i \in {token0_input, token1_input, get_reserves_input}}
        token_keys == {<<t, i>> : t \in TokenAddrs,
                        i \in {decimals_input} \cup {balance_of_input(p) : p \in PairAddrs}}
    IN [code |-> PairAddrs \cup TokenAddrs,
        answers |->
        [key \in pair_keys \cup token_keys |->
          IF key[2] = token0_input
          THEN returned(<<[hi |-> dirt(key[1]), lo |-> tokens[key[1]][1]]>>)
          ELSE IF key[2] = token1_input
          THEN returned(<<[hi |-> dirt(key[1]), lo |-> tokens[key[1]][2]]>>)
          ELSE IF key[2] = get_reserves_input THEN returned(reserves(key[1]))
          ELSE IF key[2] = decimals_input THEN returned(<<decimals(key[1])>>)
          ELSE returned(<<balance(key[1], key[2].arg)>>)]]

\* the executor with at most one thing wrong: a contract without code, or a call that
\* reverts, returns nothing, returns its first word only, or returns a word too many
FaultyVms(v) ==
    LET broken(at, return_value) ==
            [v EXCEPT !.answers[at] = [success |-> TRUE, return_value |-> return_value]]
    IN {v}
       \cup {[v EXCEPT !.code = @ \ {a}] : a \in v.code}
       \cup {[v EXCEPT !.answers[key] = [success |-> FALSE, return_value |-> << >>]] :
                key \in DOMAIN v.answers}
       \cup {broken(key, << >>) : key \in DOMAIN v.answers}
       \cup {broken(<<p, get_reserves_input>>,
                    SubSeq(v.answers[<<p, get_reserves_input>>].return_value, 1, 1)) :
                p \in PairAddrs}
       \cup {broken(<<t, balance_of_input(p)>>,
                    Append(v.answers[<<t, balance_of_input(p)>>].return_value, 0)) :
                t \in TokenAddrs, p \in PairAddrs}

\* the tokens of the pairs: two distinct tokens each, as the v2 factory makes them
PairTokens ==
    {[p \in PairAddrs |-> IF p = "p1" THEN first ELSE second] :
        first \in {<<WETH, "t1">>, <<"t1", WETH>>},
        second \in {<<"t2", "t1">>, <<WETH, "t1">>}}

\* no middleware, no fuzz state, no initializer at work
FuzzerIdle ==
    /\ callers = {}
    /\ middleware = NewFlashloan(None)
    /\ flashloan_oracle = NewOracle
    /\ flashloan_data = NewFlashloanData
    /\ last = [op |-> "new"]
    /\ txn_values = 0
    /\ borrow_ran = FALSE
    /\ pc = At("done")
    /\ loader = [contracts |-> << >>, setup_data |-> None]
    /\ evmstate = [balance |-> EmptyMap]
    /\ host = [code |-> EmptyMap, flashloan_middleware |-> FALSE]
    /\ state = NewFuzzState
    /\ scheduler = << >>
    /\ infant_scheduler = << >>
    /\ artifacts = None
    /\ blacklist_addr = None
    /\ chain = [abi_map |-> EmptyMap]
    /\ heimdall_calls = << >>
    /\ typed_bug_oracle = [address_to_name |-> EmptyMap]
    /\ ctx = [post_state |-> [typed_bug |-> << >>], fuzz_state |-> [artifact_info |-> FALSE]]
    /\ default_hasher = EmptyMap
    /\ bug_output = [status |-> "none", reports |-> << >>, returned |-> << >>]

OffInit ==
    /\ \E tokens \in PairTokens :
         vm \in FaultyVms(GoodVm(tokens))
    /\ \E v2_pairs \in SeqsUpTo(PairAddrs, MaxPairList) :
         /\ offchain = NewOffChainConfig(v2_pairs)
         /\ off_run = [status |-> "new", inits |-> 0, given |-> v2_pairs,
                       query |-> << >>, result |-> << >>]
    /\ onchain = [chain_name |-> "", pairs |-> EmptyMap, reserves |-> EmptyMap]
    /\ info = [op |-> "none", calls |-> 0]
    /\ FuzzerIdle

\* OffChainConfig::initialize; after a panic the process is gone
OffInitialize ==
    /\ off_run.status # "panic"
    /\ off_run.inits < MaxInits
    /\ \E order \in Orders(offchain.v2_pairs) :
         LET b == initialize_in(offchain, order, vm)
         IN /\ offchain' = b.config
            /\ off_run' = [off_run EXCEPT !.status = b.status, !.inits = @ + 1,
                                          !.query = << >>, !.result = << >>]
    /\ UNCHANGED <<callers, flVars, initVars, vm, onchain, info,
                 typed_bug_oracle, ctx, default_hasher, bug_output>>

\* the queries of ChainConfig, on the texts of addresses
GetPair ==
    /\ off_run.status # "panic"
    /\ \E token \in TokenAddrs \cup {"p1"} :
         off_run' = [off_run EXCEPT !.query = <<"get_pair", token>>,
                        !.result = get_pair(offchain, debug_address(token))]
    /\ UNCHANGED <<callers, flVars, initVars, offchain, vm, onchain, info,
                 typed_bug_oracle, ctx, default_hasher, bug_output>>
FetchReserve ==
    /\ off_run.status # "panic"
    /\ \E pair \in PairAddrs \cup {WETH} :
         off_run' = [off_run EXCEPT !.query = <<"fetch_reserve", pair>>,
                        !.result = fetch_reserve(offchain, debug_address(pair))]
    /\ UNCHANGED <<callers, flVars, initVars, offchain, vm, onchain, info,
                 typed_bug_oracle, ctx, default_hasher, bug_output>>
GetTokenBalance ==
    /\ off_run.status # "panic"
    /\ \E token \in TokenAddrs, address \in PairAddrs \cup {WETH} :
         off_run' = [off_run EXCEPT !.query = <<"get_token_balance", token, address>>,
                        !.result = <<get_token_balance(offchain, token, address)>>]
    /\ UNCHANGED <<callers, flVars, initVars, offchain, vm, onchain, info,
                 typed_bug_oracle, ctx, default_hasher, bug_output>>

OffNext == OffInitialize \/ GetPair \/ FetchReserve \/ GetTokenBalance

SpecOffChain == OffInit /\ [][OffNext]_vars

(***************************************************************************)
(* tokens/uniswap.rs: path discovery over the pairs an endpoint reports.   *)
(* A PairData is the record of the fields the file reads and writes; the   *)
(* reserves are the endpoint's hexadecimal strings, kept as the sequences  *)
(* of their digits.                                                        *)
(***************************************************************************)
MAX_HOPS == 2

\* the largest reserve a pair of the model holds; with the reserves positive and no
\* larger, the quotient of get_pegged_next_hop neither divides by zero nor exceeds u32
MaxReserve == 1000
\* the most pairs the endpoint knows at once, the USDC/WETH pair apart
MaxPairs == 4
\* the most calls of path discovery in one run
MaxCalls == 1

\* get_pegged_token(network), the table of the file
get_pegged_token_of(network) ==
    CASE network = "eth" ->
           [name \in {"WETH", "USDC", "USDT", "DAI", "WBTC", "WMATIC"} |->
              CASE name = "WETH" -> "0xc02aaa39b223fe8d0a0e5c4f27ead9083c756cc2"
                [] name = "USDC" -> "0xa0b86991c6218b36c1d19d4a2e9eb0ce3606eb48"
                [] name = "USDT" -> "0xdac17f958d2ee523a2206206994597c13d831ec7"
                [] name = "DAI" -> "0x6b175474e89094c44da98b954eedeac495271d0f"
                [] name = "WBTC" -> "0x2260fac5e5542a773aa44fbcfedf7c193bc2c599"
                [] name = "WMATIC" -> "0x7d1afa7b718fb893db30a3abc0cfc608aacfebb0"]
      [] network = "bsc" ->
           [name \in {"WBNB", "USDC", "USDT", "DAI", "WBTC", "WETH", "BUSD", "CAKE"} |->
              CASE name = "WBNB" -> "0xbb4cdb9cbd36b01bd1cbaebf2de08d9173bc095c"
                [] name = "USDC" -> "0x8ac76a51cc950d9822d68b83fe1ad97b32cd580d"
                [] name = "USDT" -> "0x55d398326f99059ff775485246999027b3197955"
                [] name = "DAI" -> "0x1af3f329e8be154074d8769d1ffa4ee058b1dbc3"
                [] name = "WBTC" -> "0x7130d2a12b9bcbfae4f2634d864a1ee1ce3ead9c"
                [] name = "WETH" -> "0x2170ed0880ac9a755fd29b2688956bd959f933f8"
                [] name = "BUSD" -> "0xe9e7cea3dedca5984780bafc599bd69add087d56"
                [] name = "CAKE" -> "0x0e09fabb73bd3ade0a17ecc321fd13a19e81ce82"]
      [] network = "polygon" ->
           [name \in {"WMATIC", "USDC", "USDT", "DAI", "WBTC", "WETH"} |->
              CASE name = "WMATIC" -> "0x0d500b1d8e8ef31e21c99d1db9a6444d3adf1270"
                [] name = "USDC" -> "0x2791bca1f2de4661ed88a30c99a7a9449aa84174"
                [] name = "USDT" -> "0xc2132d05d31c914a87c6611c10748aeb04b58e8f"
                [] name = "DAI" -> "0x8f3cf7ad23cd3cadbd9735aff958023239c6a063"
                [] name = "WBTC" -> "0x1bfd67037b42cf73acf2047067bd4f2c47d9bfd6"
                [] name = "WETH" -> "0x7ceb23fd6bc0add59e62ac25578270cff1b9f619"]
      [] network = "local" ->
           [name \in {"ZERO"} |-> "0x0000000000000000000000000000000000000000"]
      [] OTHER -> EmptyMap

\* pegged_tokens.values()
pegged_values(network) ==
    {get_pegged_token_of(network)[name] : name \in DOMAIN get_pegged_token_of(network)}

get_weth(network) ==
    CASE network = "eth" -> get_pegged_token_of(network)["WETH"]
      [] network = "bsc" -> get_pegged_token_of(network)["WBNB"]
      [] network = "polygon" -> get_pegged_token_of(network)["WMATIC"]
      [] network = "local" -> get_pegged_token_of(network)["ZERO"]
      [] OTHER -> ""

\* str::to_lowercase, on the texts of the model: the one that has capitals is USDC's
\* checksummed form
to_lowercase(text) ==
    IF text = "0xA0b86991c6218b36c1d19D4a2e9Eb0cE3606eB48"
    THEN "0xa0b86991c6218b36c1d19d4a2e9eb0ce3606eb48" ELSE text

\* OnChainConfig::get_pair and fetch_reserve: what the endpoint answers
onchain_get_pair(oc, token, network, is_pegged, weth) ==
    IF token \in DOMAIN oc.pairs THEN oc.pairs[token] ELSE << >>
onchain_fetch_reserve(oc, pair) == oc.reserves[pair]

\* get_pair of the file: nothing for the wrapped native token, and of more than ten pairs
\* those that lead to a pegged token
uniswap_get_pair(oc, token, network, is_pegged) ==
    LET lower == to_lowercase(token)
        pairs == onchain_get_pair(oc, lower, network,
                                  is_pegged \/ lower \in pegged_values(network),
                                  get_weth(network))
        leads_to_pegged(p) == p.next \in pegged_values(network)
    IN IF lower = get_weth(network) THEN << >>
       ELSE IF Len(pairs) > 10 THEN SelectSeq(pairs, leads_to_pegged) ELSE pairs

\* get_all_hops: the pair lists of the tokens within reach, the tokens known after it,
\* and, as history, the tokens it was called for, in the order of the calls
RECURSIVE get_all_hops(_, _, _, _, _)
RECURSIVE get_all_hops_from(_, _, _, _, _, _, _)
get_all_hops(oc, token, network, hop, known) ==
    IF hop > MAX_HOPS
    THEN [hops |-> EmptyMap, known |-> known \cup {token}, expanded |-> <<token>>]
    ELSE LET list == uniswap_get_pair(oc, token, network, FALSE)
             loop == get_all_hops_from(oc, list, 1, network, hop, known \cup {token},
                                       Put(EmptyMap, token, list))
         IN [loop EXCEPT !.expanded = <<token>> \o @]
\* the loop of get_all_hops from the n-th pair of the token's list on
get_all_hops_from(oc, list, n, network, hop, known, hops) ==
    IF n > Len(list) THEN [hops |-> hops, known |-> known, expanded |-> << >>]
    ELSE IF list[n].next \in pegged_values(network) \/ list[n].next \in known
    THEN get_all_hops_from(oc, list, n + 1, network, hop, known, hops)
    ELSE LET next_hops == get_all_hops(oc, list[n].next, network, hop + 1, known)
             rest == get_all_hops_from(oc, list, n + 1, network, hop, next_hops.known,
                                       next_hops.hops @@ hops)
         IN [rest EXCEPT !.expanded = next_hops.expanded \o @]

\* i128::from_str_radix(text, 16) of a string of hexadecimal digits
RECURSIVE from_str_radix(_)
from_str_radix(digits) ==
    IF Len(digits) = 0 THEN 0
    ELSE from_str_radix(SubSeq(digits, 1, Len(digits) - 1)) * 16 + digits[Len(digits)]

RECURSIVE pow10(_)
pow10(n) == IF n = 0 THEN 1 ELSE 10 * pow10(n - 1)

\* add_reserve_info: the pair with the reserves the endpoint reports now, and whether
\* it is significant
add_reserve_info(oc, pair_data) ==
    IF pair_data.src = "pegged_weth" THEN [pair_data |-> pair_data, significant |-> TRUE]
    ELSE LET reserves == onchain_fetch_reserve(oc, pair_data.pair)
             min_r0 == IF pair_data.decimals_0 = 0 THEN 0
                       ELSE pow10(pair_data.decimals_0 - 1)
             min_r1 == IF pair_data.decimals_1 = 0 THEN 0
                       ELSE pow10(pair_data.decimals_1 - 1)
         IN [pair_data |-> [pair_data EXCEPT !.initial_reserves_0 = reserves[1],
                                             !.initial_reserves_1 = reserves[2]],
             significant |-> /\ from_str_radix(reserves[1]) > min_r0
                             /\ from_str_radix(reserves[2]) > min_r1]

\* (num as f64 / den as f64 * 1_000_000.0).round() as u32, for 0 < num, den <= 1073:
\* f64::round takes a half away from zero, and inexact_halves are the divisors and
\* dividends whose quotient times 10^6 lies halfway between two integers and which
\* binary64 division and multiplication leave just below the half
\* (first the quotient cut off, not rounded)
round_rate_down(num, den) == (num * 1000000) \div den
round_rate(num, den) ==
    LET inexact_halves ==
            {<<640, 41>>, <<640, 323>>, <<640, 333>>, <<640, 641>>, <<640, 651>>,
             <<640, 661>>, <<640, 671>>}
    IN IF <<den, num>> \in inexact_halves THEN (num * 1000000) \div den
       ELSE (2 * num * 1000000 + den) \div (2 * den)

\* get_pegged_next_hop; the expect on an empty list of pairs panics
\* (first with the wrapped native token taken to be the one named WETH)
get_pegged_next_hop_of_weth(oc, token, network) ==
    IF token = get_pegged_token_of(network)["WETH"]
    THEN [status |-> "ok",
          hop |-> [src |-> "pegged_weth", rate |-> 1000000, in_ |-> 0, next |-> "",
                   pair |-> "", initial_reserves_0 |-> << >>, initial_reserves_1 |-> << >>,
                   src_exact |-> "", decimals_0 |-> 0, decimals_1 |-> 0]]
    ELSE LET pairs == uniswap_get_pair(oc, token, network, TRUE)
             peg_info == add_reserve_info(oc, pairs[1]).pair_data
             p0 == from_str_radix(peg_info.initial_reserves_0)
             p1 == from_str_radix(peg_info.initial_reserves_1)
         IN IF pairs = << >> THEN [status |-> "panic"]
            ELSE [status |-> "ok",
                  hop |-> [peg_info EXCEPT
                              !.rate = IF peg_info.in_ = 0 THEN round_rate(p1, p0)
                                       ELSE round_rate(p0, p1),
                              !.src = "pegged"]]
get_pegged_next_hop(oc, token, network) ==
    IF token = get_weth(network)
    THEN [status |-> "ok",
          hop |-> [src |-> "pegged_weth", rate |-> 1000000, in_ |-> 0, next |-> "",
                   pair |-> "", initial_reserves_0 |-> << >>, initial_reserves_1 |-> << >>,
                   src_exact |-> "", decimals_0 |-> 0, decimals_1 |-> 0]]
    ELSE LET pairs == uniswap_get_pair(oc, token, network, TRUE)
             peg_info == add_reserve_info(oc, pairs[1]).pair_data
             p0 == from_str_radix(peg_info.initial_reserves_0)
             p1 == from_str_radix(peg_info.initial_reserves_1)
         IN IF pairs = << >> THEN [status |-> "panic"]
            ELSE [status |-> "ok",
                  hop |-> [peg_info EXCEPT
                              !.rate = IF peg_info.in_ = 0 THEN round_rate(p1, p0)
                                       ELSE round_rate(p0, p1),
                              !.src = "pegged"]]

with_info(routes, network, token) ==
    [routes |-> routes,
     basic_info |-> [weth |-> get_weth(network), is_weth |-> token = get_weth(network)]]

\* dfs: the tokens visited and the routes found after it and, as history, the tokens it
\* inserted into visited, in the order of the insertions; a panic of get_pegged_next_hop
\* ends it
RECURSIVE dfs(_, _, _, _, _, _, _)
RECURSIVE dfs_from(_, _, _, _, _, _, _, _)
RECURSIVE dfs_from_backtracks(_, _, _, _, _, _, _, _)
dfs(oc, token, network, path, visited, hops, routes) ==
    IF token \in pegged_values(network)
    THEN LET next_hop == get_pegged_next_hop(oc, token, network)
         IN IF next_hop.status = "panic"
            THEN [status |-> "panic", visited |-> visited, routes |-> routes,
                  entered |-> << >>]
            ELSE [status |-> "ok", visited |-> visited,
                  routes |-> Append(routes, Append(path, next_hop.hop)),
                  entered |-> << >>]
    ELSE IF token \notin DOMAIN hops
    THEN [status |-> "ok", visited |-> visited \cup {token}, routes |-> routes,
          entered |-> <<token>>]
    ELSE LET loop == dfs_from(oc, hops[token], 1, network, path, visited \cup {token},
                              hops, routes)
         IN [loop EXCEPT !.entered = <<token>> \o @]
\* the loop of dfs that takes a token for visited only while it is on the path
dfs_from_backtracks(oc, list, n, network, path, visited, hops, routes) ==
    IF n > Len(list)
    THEN [status |-> "ok", visited |-> visited, routes |-> routes, entered |-> << >>]
    ELSE IF list[n].next \in visited
    THEN dfs_from_backtracks(oc, list, n + 1, network, path, visited, hops, routes)
    ELSE LET below == dfs(oc, list[n].next, network, Append(path, list[n]), visited,
                          hops, routes)
             rest == dfs_from_backtracks(oc, list, n + 1, network, path, visited, hops,
                                         below.routes)
         IN IF below.status = "panic" THEN below
            ELSE [rest EXCEPT !.entered = below.entered \o @]
\* the loop of dfs from the n-th pair of the token's list on
dfs_from(oc, list, n, network, path, visited, hops, routes) ==
    IF n > Len(list)
    THEN [status |-> "ok", visited |-> visited, routes |-> routes, entered |-> << >>]
    ELSE IF list[n].next \in visited
    THEN dfs_from(oc, list, n + 1, network, path, visited, hops, routes)
    ELSE LET below == dfs(oc, list[n].next, network, Append(path, list[n]), visited,
                          hops, routes)
             rest == dfs_from(oc, list, n + 1, network, path, below.visited, hops,
                              below.routes)
         IN IF below.status = "panic" THEN below
            ELSE [rest EXCEPT !.entered = below.entered \o @]

\* find_path_subgraph: the Info and, as history, the tokens get_all_hops was called for
\* and the tokens dfs inserted into visited
find_path_subgraph(oc, token) ==
    LET network == oc.chain_name
        hop == get_pegged_next_hop(oc, token, network)
        all_hops == get_all_hops(oc, token, network, 0, {})
        hops == all_hops.hops
        found == dfs(oc, token, network, << >>, {}, hops, << >>)
        with_reserves(route) ==
            [n \in DOMAIN route |-> add_reserve_info(oc, route[n]).pair_data]
        liquid(route) ==
            \A n \in DOMAIN route : add_reserve_info(oc, route[n]).significant
        routes == [k \in DOMAIN found.routes |-> with_reserves(found.routes[k])]
    IN IF token \in pegged_values(network)
       THEN IF hop.status = "panic" THEN [status |-> "panic"]
            ELSE [status |-> "ok", info |-> with_info(<<<<hop.hop>>>>, network, token),
                  expanded |-> << >>, entered |-> << >>]
       ELSE IF found.status = "panic" THEN [status |-> "panic"]
       ELSE [status |-> "ok",
             info |-> with_info(SelectSeq(routes, liquid), network, token),
             expanded |-> all_hops.expanded, entered |-> found.entered]

\* The pairs an endpoint may know: the tokens 0xa1, 0xb2 and 0xc3 among themselves and
\* with WETH and USDC, and the pair 0x9uw of USDC with WETH under several reserves.
PairMenu(network) ==
    LET weth == get_weth(network)
        usdc == get_pegged_token_of(network)["USDC"]
        pool(pair, token0, token1, decimals, reserves_0, reserves_1) ==
            [pair |-> pair, token0 |-> token0, token1 |-> token1,
             decimals_0 |-> decimals, decimals_1 |-> decimals,
             reserves_0 |-> reserves_0, reserves_1 |-> reserves_1]
    IN <<pool("0x1ab", "0xa1", "0xb2", 1, <<6, 4>>, <<6, 4>>),
         pool("0x2ab", "0xb2", "0xa1", 1, <<3, 2>>, <<6, 4>>),
         pool("0x3ac", "0xa1", "0xc3", 0, <<1>>, <<2>>),
         pool("0x4bc", "0xb2", "0xc3", 1, <<6, 4>>, <<6, 4>>),
         pool("0x5cw", "0xc3", weth, 2, <<6, 4>>, <<6, 4>>),
         pool("0x6bw", weth, "0xb2", 2, <<6, 4>>, <<3, 14, 8>>),
         pool("0x7bw", "0xb2", weth, 3, <<6, 4>>, <<6, 5>>),
         pool("0x8au", "0xa1", usdc, 1, <<6, 4>>, <<6, 4>>),
         pool("0x9uw", usdc, weth, 1, <<2, 8, 0>>, <<2, 9>>),
         pool("0x9uw", weth, usdc, 1, <<2, 9>>, <<2, 8, 0>>),
         pool("0x9uw", usdc, weth, 0, <<8, 0>>, <<1>>),
         pool("0x9uw", usdc, weth, 0, <<3>>, <<2>>),
         pool("0x9uw", weth, usdc, 0, <<3>>, <<2>>),
         pool("0x9uw", usdc, weth, 0, <<1>>,
              <<MaxReserve \div 256, (MaxReserve \div 16) % 16, MaxReserve % 16>>),
         pool("0x9uw", usdc, weth, 3, <<5>>, <<6, 4>>)>>

\* OnChainConfig over the endpoint that knows the given pools, in the given order: each
\* pool is listed under both of its tokens, with in_ the side of the token and next the
\* other token
NewOnChainConfig(pools) ==
    LET tokens == {pools[n].token0 : n \in DOMAIN pools}
                      \cup {pools[n].token1 : n \in DOMAIN pools}
        listed(token) ==
            LET has(pool) == token \in {pool.token0, pool.token1}
                mine == SelectSeq(pools, has)
            IN [n \in DOMAIN mine |->
                  [src |-> "v2", rate |-> 0,
                   in_ |-> IF token = mine[n].token0 THEN 0 ELSE 1,
                   next |-> IF token = mine[n].token0 THEN mine[n].token1
                            ELSE mine[n].token0,
                   pair |-> mine[n].pair,
                   initial_reserves_0 |-> mine[n].reserves_0,
                   initial_reserves_1 |-> mine[n].reserves_1,
                   src_exact |-> "uniswapv2",
                   decimals_0 |-> mine[n].decimals_0,
                   decimals_1 |-> mine[n].decimals_1]]
    IN [chain_name |-> "eth",
        pairs |-> [token \in tokens |-> listed(token)],
        reserves |-> [pair \in {pools[n].pair : n \in DOMAIN pools} |->
                        LET pool == CHOOSE p \in {pools[n] : n \in DOMAIN pools} :
                                       p.pair = pair
                        IN <<pool.reserves_0, pool.reserves_1>>]]

\* the endpoint knows at most MaxPairs of the pairs and at most one 0x9uw, and lists them
\* in the order of the menu or against it
PathInit ==
    /\ \E network \in {"eth", "bsc"}, reversed \in BOOLEAN,
            chosen \in SUBSET {n \in DOMAIN PairMenu("eth") :
                                 PairMenu("eth")[n].pair # "0x9uw"},
            peg \in {{}} \cup {{n} : n \in {m \in DOMAIN PairMenu("eth") :
                                                PairMenu("eth")[m].pair = "0x9uw"}} :
         /\ Cardinality(chosen) <= MaxPairs
         /\ LET in_chosen(n) == n \in chosen \cup peg
                picked == SelectSeq([n \in DOMAIN PairMenu(network) |-> n], in_chosen)
                pools == [n \in DOMAIN picked |-> PairMenu(network)[picked[n]]]
            IN onchain = [NewOnChainConfig(
                            IF reversed
                            THEN [n \in DOMAIN pools |-> pools[Len(pools) + 1 - n]]
                            ELSE pools)
                          EXCEPT !.chain_name = network]
    /\ info = [op |-> "none", calls |-> 0]
    /\ offchain = [v2_pairs |-> {}, pair_cache |-> EmptyMap, reserves_cache |-> EmptyMap,
                   balance_cache |-> EmptyMap]
    /\ off_run = [status |-> "none", inits |-> 0, given |-> << >>, query |-> << >>,
                  result |-> << >>]
    /\ vm = [code |-> {}, answers |-> EmptyMap]
    /\ FuzzerIdle

\* find_path_subgraph for one of the three tokens, a token no pair has, the wrapped
\* native token, USDC, USDC of eth in its checksummed spelling, or DAI; after a panic the
\* process is gone
FindPathSubgraph ==
    /\ info.calls < MaxCalls
    /\ IF info.op = "none" THEN TRUE ELSE info.result.status # "panic"
    /\ \E token \in {"0xa1", "0xb2", "0xc3", "0xd4", get_weth(onchain.chain_name),
                      get_pegged_token_of(onchain.chain_name)["USDC"],
                      "0xA0b86991c6218b36c1d19D4a2e9Eb0cE3606eB48",
                      get_pegged_token_of(onchain.chain_name)["DAI"]} :
         info' = [op |-> "find_path_subgraph", calls |-> info.calls + 1, token |-> token,
                  result |-> find_path_subgraph(onchain, token)]
    /\ UNCHANGED <<callers, flVars, initVars, offchain, off_run, vm, onchain,
                 typed_bug_oracle, ctx, default_hasher, bug_output>>

\* get_pegged_next_hop for the wrapped native token, USDC or DAI
GetPeggedNextHop ==
    /\ info.calls < MaxCalls
    /\ IF info.op = "none" THEN TRUE ELSE info.result.status # "panic"
    /\ \E token \in {get_weth(onchain.chain_name),
                      get_pegged_token_of(onchain.chain_name)["USDC"],
                      get_pegged_token_of(onchain.chain_name)["DAI"]} :
         info' = [op |-> "get_pegged_next_hop", calls |-> info.calls + 1,
                  token |-> token,
                  result |-> get_pegged_next_hop(onchain, token, onchain.chain_name)]
    /\ UNCHANGED <<callers, flVars, initVars, offchain, off_run, vm, onchain,
                 typed_bug_oracle, ctx, default_hasher, bug_output>>

PathNext == FindPathSubgraph \/ GetPeggedNextHop

SpecPaths == PathInit /\ [][PathNext]_vars

(***************************************************************************)
(* evm/oracles/typed_bug.rs: the oracle of the typed bugs.  A u64 is kept  *)
(* as its 64 bits, the most significant first.                             *)
(***************************************************************************)
TYPED_BUG_BUG_IDX == 4

MaxBugs == 2

\* u64 << n for n < 64: the bits pushed out at the top are lost
shl(bits, n) == [i \in 1..64 |-> IF i + n <= 64 THEN bits[i + n] ELSE 0]

\* TypedBugOracle::oracle with a shift of 8 bits only
oracle_shifts_by_8(self, context, finish) ==
    LET typed_bug == context.post_state.typed_bug
        report(entry) ==
            LET bug_id == entry[1]
                addr == entry[2][1]
                at_pc == entry[2][2]
                hasher == <<bug_id, at_pc>>
                name == IF addr \in DOMAIN self.address_to_name
                        THEN self.address_to_name[addr]
                        ELSE debug_address(addr)
                real_bug_idx == shl(finish[hasher], 8)
            IN [bug_type |-> "Bug", bug_idx |-> real_bug_idx,
                description |-> <<"Invariant ", bug_id, " violated">>,
                name |-> Some(name)]
    IN IF typed_bug # << >>
       THEN IF ~context.fuzz_state.artifact_info
            THEN [status |-> "panic", reports |-> << >>, returned |-> << >>]
            ELSE [status |-> "ok",
                  reports |-> [i \in DOMAIN typed_bug |-> report(typed_bug[i])],
                  returned |-> [i \in DOMAIN typed_bug |-> report(typed_bug[i]).bug_idx]]
       ELSE [status |-> "ok", reports |-> << >>, returned |-> << >>]
\* TypedBugOracle::oracle: the hasher is what was written to it, bug_id and then pc, and
\* finish gives its u64; the expect on the metadata panics before the first report; the
\* ConciseEVMInput and the source map of a report are left out
oracle(self, context, finish) ==
    LET typed_bug == context.post_state.typed_bug
        report(entry) ==
            LET bug_id == entry[1]
                addr == entry[2][1]
                at_pc == entry[2][2]
                hasher == <<bug_id, at_pc>>
                name == IF addr \in DOMAIN self.address_to_name
                        THEN self.address_to_name[addr]
                        ELSE debug_address(addr)
                real_bug_idx == shl(finish[hasher], 8 + TYPED_BUG_BUG_IDX)
            IN [bug_type |-> "Bug", bug_idx |-> real_bug_idx,
                description |-> <<"Invariant ", bug_id, " violated">>,
                name |-> Some(name)]
    IN IF typed_bug # << >>
       THEN IF ~context.fuzz_state.artifact_info
            THEN [status |-> "panic", reports |-> << >>, returned |-> << >>]
            ELSE [status |-> "ok",
                  reports |-> [i \in DOMAIN typed_bug |-> report(typed_bug[i])],
                  returned |-> [i \in DOMAIN typed_bug |-> report(typed_bug[i]).bug_idx]]
       ELSE [status |-> "ok", reports |-> << >>, returned |-> << >>]

\* a post state with up to MaxBugs typed bugs at two addresses, of which "0xc1" may have a
\* name; two u64 that DefaultHasher may give: 2^63 + 1 and 2
TypedBugInit ==
    /\ \E names \in {EmptyMap, Put(EmptyMap, "0xc1", <<"Vault">>)} :
         typed_bug_oracle = [address_to_name |-> names]
    /\ \E n \in 0..MaxBugs, metadata \in BOOLEAN :
         \E typed_bug \in [1..n -> {"inv_a", "inv_b"} \X ({"0xc1", "0xc2"} \X {7, 9})] :
            ctx = [post_state |-> [typed_bug |-> typed_bug],
                   fuzz_state |-> [artifact_info |-> metadata]]
    /\ default_hasher \in [{"inv_a", "inv_b"} \X {7, 9} ->
                             {[i \in 1..64 |-> IF i \in {1, 64} THEN 1 ELSE 0],
                              [i \in 1..64 |-> IF i = 63 THEN 1 ELSE 0]}]
    /\ bug_output = [status |-> "none", reports |-> << >>, returned |-> << >>]
    /\ offchain = [v2_pairs |-> {}, pair_cache |-> EmptyMap, reserves_cache |-> EmptyMap,
                   balance_cache |-> EmptyMap]
    /\ off_run = [status |-> "none", inits |-> 0, given |-> << >>, query |-> << >>,
                  result |-> << >>]
    /\ vm = [code |-> {}, answers |-> EmptyMap]
    /\ onchain = [chain_name |-> "", pairs |-> EmptyMap, reserves |-> EmptyMap]
    /\ info = [op |-> "none", calls |-> 0]
    /\ callers = {}
    /\ middleware = NewFlashloan(None)
    /\ flashloan_oracle = NewOracle
    /\ flashloan_data = NewFlashloanData
    /\ last = [op |-> "new"]
    /\ txn_values = 0
    /\ borrow_ran = FALSE
    /\ pc = At("done")
    /\ loader = [contracts |-> << >>, setup_data |-> None]
    /\ evmstate = [balance |-> EmptyMap]
    /\ host = [code |-> EmptyMap, flashloan_middleware |-> FALSE]
    /\ state = NewFuzzState
    /\ scheduler = << >>
    /\ infant_scheduler = << >>
    /\ artifacts = None
    /\ blacklist_addr = None
    /\ chain = [abi_map |-> EmptyMap]
    /\ heimdall_calls = << >>

\* the fuzzer runs the oracle on the post state, once
Oracle ==
    /\ bug_output.status = "none"
    /\ bug_output' = oracle(typed_bug_oracle, ctx, default_hasher)
    /\ UNCHANGED <<callers, flVars, initVars, offchain, off_run, vm, onchain, info,
                   typed_bug_oracle, ctx, default_hasher>>

SpecTypedBug == TypedBugInit /\ [][Oracle]_vars

(***************************************************************************)
(* Claims about the flash-loan middleware.                                 *)
(***************************************************************************)
TokenNames == {"balanceOf", "transfer", "transferFrom", "approve"}
PairNames == {"skim", "sync", "swap"}
IsInsertion(l) == l.op = "on_contract_insertion"
HasNames(abi, names) == \A n \in names : \E i \in DOMAIN abi : abi[i].function_name = n
Registrations(a) ==
    Cardinality({i \in DOMAIN flashloan_oracle.registered :
                    flashloan_oracle.registered[i].token = a})

\* C4, as stated: every call of on_contract_insertion whose ABI names include the four
\* token functions, a token context being available, returns (true, _), and every call
\* whose ABI names include skim, sync and swap returns (_, true).
C4_EveryCallClassifies ==
    IsInsertion(last) =>
        /\ (HasNames(last.abi, TokenNames) /\ middleware.endpoint # None) => last.ret[1]
        /\ HasNames(last.abi, PairNames) => last.ret[2]

\* C4, amended: the same for every call on an address that is not yet in
\* known_addresses, the token half provided also that the oracle is not mutably
\* borrowed at the time of the call.
C4_FreshCallClassifies ==
    [][ (IsInsertion(last') /\ last'.addr \notin middleware.known_addresses) =>
          /\ ( /\ HasNames(last'.abi, TokenNames)
               /\ middleware.endpoint # None
               /\ ~flashloan_oracle.borrowed ) => last'.ret[1]
          /\ HasNames(last'.abi, PairNames) => last'.ret[2] ]_vars

\* a fresh address with the token and the pair functions was classified as both
C4_Witness ==
    /\ IsInsertion(last) /\ last.fresh /\ ~last.contended
    /\ HasNames(last.abi, TokenNames) /\ HasNames(last.abi, PairNames)
    /\ last.ret = <<TRUE, TRUE>>

\* C5: a call of on_contract_insertion for an address already in known_addresses
\* returns (false, false) and leaves erc20_address, pair_address and the oracle's
\* registrations as they were, whatever the ABI; and no address is ever registered
\* with the oracle more than once.
C5_NoDoubleClassification ==
    /\ [][ (IsInsertion(last') /\ last'.addr \in middleware.known_addresses) =>
              /\ last'.ret = <<FALSE, FALSE>>
              /\ middleware'.erc20_address = middleware.erc20_address
              /\ middleware'.pair_address = middleware.pair_address
              /\ flashloan_oracle'.registered = flashloan_oracle.registered ]_vars
    /\ [](\A a \in ContractAddrs : Registrations(a) <= 1)

\* a registered token was inserted again, with the token and the pair functions
C5_Witness ==
    /\ IsInsertion(last) /\ ~last.fresh /\ ~last.contended
    /\ HasNames(last.abi, TokenNames) /\ HasNames(last.abi, PairNames)
    /\ middleware.endpoint # None
    /\ Registrations(last.addr) = 1
    /\ last.addr \notin middleware.pair_address

\* C6: an insertion made while the oracle is mutably borrowed returns is_erc20 = false,
\* adds nothing to erc20_address, leaves the oracle as it was and puts the address in
\* known_addresses; and an address that is known and not an ERC-20 never becomes one,
\* nor is it registered, by anything that happens later.
C6_ContentionSkipsForGood ==
    /\ [][ (IsInsertion(last') /\ flashloan_oracle.borrowed) =>
              /\ ~last'.ret[1]
              /\ middleware'.erc20_address = middleware.erc20_address
              /\ flashloan_oracle' = flashloan_oracle
              /\ last'.addr \in middleware'.known_addresses ]_vars
    /\ [][ \A a \in middleware.known_addresses \ middleware.erc20_address :
              /\ a \notin middleware'.erc20_address
              /\ a \in middleware'.known_addresses
              /\ flashloan_oracle'.registered = flashloan_oracle.registered
                 \/ flashloan_oracle'.registered[Len(flashloan_oracle'.registered)].token # a ]_vars

\* a fresh address with the token functions, a token context being available, was
\* inserted while the oracle was borrowed: it is known, it is no ERC-20, nothing is registered
C6_Witness ==
    /\ IsInsertion(last) /\ last.fresh /\ last.contended
    /\ HasNames(last.abi, TokenNames)
    /\ middleware.endpoint # None
    /\ last.addr \in middleware.known_addresses
    /\ last.addr \notin middleware.erc20_address
    /\ flashloan_oracle.registered = << >>
    /\ ~last.ret[1]

\* C8: on every step whose opcode is CALL (0xf1) or CALLCODE (0xf2), on_step adds
\* value * 10^6 to earned when the value (stack[2]) is positive and the callee
\* (stack[1]) is a registered caller, and leaves earned unchanged otherwise.
C8_CallAndCallcodeEarn ==
    [][ (last'.op = "on_step" /\ last'.interp.op \in {241, 242}) =>
          LET callee == last'.interp.stack[2].lo
              value == last'.interp.stack[3]
          IN flashloan_data'.earned =
                flashloan_data.earned
                + (IF value > 0 /\ callee \in callers THEN value * 1000000 ELSE 0) ]_vars

C10_LedgerMonotonic ==
    [][ /\ flashloan_data'.owed >= flashloan_data.owed
        /\ flashloan_data'.earned >= flashloan_data.earned ]_vars

\* both sums were raised twice
C10_Witness ==
    /\ flashloan_data.owed = 2000000
    /\ flashloan_data.earned = 2000000
    /\ last.op = "on_step" /\ last.interp.op = 241 /\ last.interp.stack[3] = 1

(***************************************************************************)
(* Claims about the corpus initializer.                                    *)
(***************************************************************************)
\* n zeros
Zeros(n) == [i \in 1..n |-> 0]
\* the functions of a list
Range(seq) == {seq[i] : i \in DOMAIN seq}
\* the initializer has left the two caller setups behind
CallersSetUp ==
    pc.op \notin {"initialize", "setup_default_callers", "setup_contract_callers"}

\* C1: after setup_default_callers and setup_contract_callers on a state without callers
\* there are exactly 4 callers, each with a balance of 100 * 10^18, and exactly the two
\* contract callers among them have the code [0xfd, 0x00].
C1_FourFundedCallers ==
    CallersSetUp =>
        /\ Cardinality(callers) = 4
        /\ \A c \in callers : Get(evmstate.balance, c) = Some(<<1, 0, 0>> \o Zeros(18))
        /\ \A c \in contract_callers :
              c \in callers /\ Get(host.code, c) = Some([raw |-> <<253, 0>>])
        /\ Cardinality(contract_callers) = 2
        /\ \A c \in callers \ contract_callers : Get(host.code, c) = None

\* the second setup has just run
C1_Witness ==
    /\ last.op = "setup_contract_callers"
    /\ pc.op = "init_cheatcode_contract"
    /\ Cardinality(callers) = 4
    /\ Cardinality(DOMAIN host.code) = 2

\* the contract whose turn it is in the loop of initialize_corpus, its selectors, the
\* number of them and the number of them ABIMap knows
TurnContract == loader.contracts[pc.i]
TurnSigs == TurnContract.code.sigs
TurnN == Len(TurnSigs)
TurnK == Cardinality({i \in DOMAIN TurnSigs : TurnSigs[i] \in DOMAIN state.metadata[1]})
\* ABI recovery is about to run for it
Recovering == pc.op = "contract" /\ TurnContract.abi = << >>
\* the step calls fetch_abi_heimdall
HeimdallInvoked == Len(heimdall_calls') = Len(heimdall_calls) + 1

C3_KnownSelectorsKept ==
    last.op = "contract" /\ last.recovered =>
        LET contract == loader.contracts[last.i]
            abi_map == state.metadata[1]
        IN /\ \A sig \in Range(contract.code.sigs) :
                 sig \in DOMAIN abi_map => abi_map[sig] \in Range(contract.abi)
           /\ last.heimdall =>
                 /\ Len(contract.abi) = Len(last.answer)
                 /\ \A n \in DOMAIN last.answer :
                       contract.abi[n] = IF last.answer[n].function \in DOMAIN abi_map
                                         THEN abi_map[last.answer[n].function]
                                         ELSE last.answer[n]

\* the corpus entries that are Borrow inputs for an address
Borrows(corpus, addr) ==
    {n \in DOMAIN corpus : /\ corpus[n].input.input_type = "Borrow"
                           /\ corpus[n].input.contract = addr}

\* C7: during initialization exactly one Borrow input is added to the main corpus for
\* every address on_contract_insertion classifies as ERC-20, with that token as contract,
\* txn_value 10^19, no data, repeat 1 and a registered caller, and the scheduler is told
\* its corpus index; no Borrow input is added for an address that is not classified.
C7_OneBorrowPerToken ==
    /\ [](\A addr \in ContractAddrs :
            Cardinality(Borrows(state.corpus, addr))
                = IF addr \in middleware.erc20_address THEN 1 ELSE 0)
    /\ [][ pc.op = "contract" =>
             LET token == TurnContract.deployed_address
                 n == Len(state.corpus)
             IN IF token \in middleware'.erc20_address \ middleware.erc20_address
                THEN /\ Len(state'.corpus) = n + 1
                     /\ SubSeq(state'.corpus, 1, n) = state.corpus
                     /\ LET input == state'.corpus[n + 1].input
                        IN /\ input.input_type = "Borrow"
                           /\ input.contract = token
                           /\ input.txn_value = Some(<<1>> \o Zeros(19))
                           /\ input.data = None
                           /\ input.repeat = 1
                           /\ input.caller \in callers
                     /\ scheduler' = Append(scheduler, [call |-> "on_add", idx |-> n])
                ELSE /\ state'.corpus = state.corpus
                     /\ scheduler' = scheduler ]_vars

\* the token was inserted after another contract had left an input in the corpus
C7_Witness ==
    /\ last.op = "contract" /\ last.ret[1]
    /\ Len(state.corpus) = 2
    /\ state.corpus[2].input.input_type = "Borrow"
    /\ state.corpus[2].input.contract = loader.contracts[last.i].deployed_address
    /\ scheduler[Len(scheduler)] = [call |-> "on_add", idx |-> 1]

\* C11: on an SSTORE step on_step adds the executing contract to oracle_recheck_reserve
\* iff that contract is a known pair and the key on top of the stack is 8; in every
\* other SSTORE case FlashloanData is left as it was.
C11_ReserveWriteRechecks ==
    [][ (last'.op = "on_step" /\ last'.interp.op = 85) =>
          LET contract == last'.interp.contract_address
              key == last'.interp.stack[1]
          IN IF contract \in middleware.pair_address /\ key = 8
             THEN /\ flashloan_data'.oracle_recheck_reserve
                        = flashloan_data.oracle_recheck_reserve \cup {contract}
                  /\ flashloan_data'.oracle_recheck_balance
                        = flashloan_data.oracle_recheck_balance
                  /\ flashloan_data'.owed = flashloan_data.owed
                  /\ flashloan_data'.earned = flashloan_data.earned
             ELSE flashloan_data' = flashloan_data ]_vars

\* a pair has written its reserves, and another key before without being marked
C11_Witness ==
    /\ last.op = "on_step" /\ last.interp.op = 85
    /\ last.interp.stack[1] = 8
    /\ last.interp.contract_address \in middleware.pair_address
    /\ flashloan_data.oracle_recheck_reserve = {last.interp.contract_address}
    /\ middleware.pair_address # ContractAddrs

(***************************************************************************)
(* Claims about the off-chain configuration.                               *)
(***************************************************************************)
\* what the probes report of a pair: the words the static calls return
ProbedToken0(p) == vm.answers[<<p, token0_input>>].return_value[1].lo
ProbedToken1(p) == vm.answers[<<p, token1_input>>].return_value[1].lo
ProbedDecimals(t) == vm.answers[<<t, decimals_input>>].return_value[1]
ProbedReserves(p) == vm.answers[<<p, get_reserves_input>>].return_value
ProbedBalance(t, p) == vm.answers[<<t, balance_of_input(p)>>].return_value
\* initialize has run once and returned Ok
InitializedOk == off_run.status = "ok" /\ off_run.inits = 1
\* the places of a pair's entries in a list of PairData
EntriesOf(entries, p) == {n \in DOMAIN entries : entries[n].pair = <<p>>}
\* the number a decimal string without leading zeros stands for, -1 for any other
RECURSIVE DecimalValue(_)
DecimalValue(digits) ==
    IF Len(digits) = 0 \/ (Len(digits) > 1 /\ digits[1] = 0) THEN -1
    ELSE IF Len(digits) = 1 THEN digits[1]
    ELSE LET front == SubSeq(digits, 1, Len(digits) - 1)
         IN (IF front[1] = 0 THEN 0 ELSE DecimalValue(front) * 10) + digits[Len(digits)]

\* C12: after initialize over a configured pair P whose probes report token0 = A,
\* token1 = B, decimals (d0, d1) and reserves (r0, r1), the entry of P in get_pair(A),
\* the first one when P is the only pair, has token0 = A, token1 = B, in_ = 0, next = B,
\* in_token = A, these decimals and reserves and the interface "uniswapv2".
C12_Token0Entry ==
    InitializedOk =>
        \A p \in offchain.v2_pairs :
            LET A == ProbedToken0(p)
                B == ProbedToken1(p)
                entries == get_pair(offchain, <<A>>)
            IN /\ EntriesOf(entries, p) # {}
               /\ offchain.v2_pairs = {p} => 1 \in EntriesOf(entries, p)
               /\ \A n \in EntriesOf(entries, p) :
                     /\ entries[n].token0 = <<A>> /\ entries[n].token1 = <<B>>
                     /\ entries[n].in_ = 0 /\ entries[n].next = <<B>>
                     /\ entries[n].in_token = <<A>>
                     /\ entries[n].decimals_0 = ProbedDecimals(A)
                     /\ entries[n].decimals_1 = ProbedDecimals(B)
                     /\ entries[n].initial_reserves_0 = ProbedReserves(p)[1]
                     /\ entries[n].initial_reserves_1 = ProbedReserves(p)[2]
                     /\ entries[n].interface = "uniswapv2"

\* the one pair WETH/t1, under dirty-free words, has been cached
C12_Witness ==
    /\ InitializedOk
    /\ offchain.v2_pairs = {"p1"}
    /\ ProbedToken0("p1") = WETH /\ ProbedToken1("p1") = "t1"
    /\ Len(get_pair(offchain, <<WETH>>)) = 1
    /\ get_pair(offchain, <<WETH>>)[1].decimals_1 = 6
    /\ get_pair(offchain, <<WETH>>)[1].initial_reserves_0 = 1200

\* C13: after initialize over a configured pair P with token0 = A and token1 = B, A # B,
\* the entry of P in get_pair(B) has the token, decimals and reserve fields of the entry
\* for A, in_ = 1 and next = A; in every cached PairData next is the side of the pair that
\* is not the input token.
C13_Token1Entry ==
    InitializedOk =>
        \A p \in offchain.v2_pairs :
            LET A == ProbedToken0(p)
                B == ProbedToken1(p)
                entries == get_pair(offchain, <<B>>)
            IN A # B =>
               /\ EntriesOf(entries, p) # {}
               /\ \A n \in EntriesOf(entries, p) :
                     /\ entries[n].token0 = <<A>> /\ entries[n].token1 = <<B>>
                     /\ entries[n].decimals_0 = ProbedDecimals(A)
                     /\ entries[n].decimals_1 = ProbedDecimals(B)
                     /\ entries[n].initial_reserves_0 = ProbedReserves(p)[1]
                     /\ entries[n].initial_reserves_1 = ProbedReserves(p)[2]
                     /\ entries[n].in_ = 1 /\ entries[n].next = <<A>>
                     /\ entries[n].in_token = <<B>>

\* C14: after initialize the caches return what the probes read: fetch_reserve(P) is the
\* pair of decimal strings of the reserves getReserves returned, the values of
\* initial_reserves_0/1 in P's PairData; get_token_balance(T, P) is the word balanceOf(P)
\* returned on T, for T a token of P; for what was never cached fetch_reserve returns
\* None, get_token_balance 0 and get_pair an empty list.
C14_CachesReturnProbes ==
    LET q == off_run.query
        cached(p) == InitializedOk /\ p \in offchain.v2_pairs
        tokens(p) == {ProbedToken0(p), ProbedToken1(p)}
    IN /\ (q # << >> /\ q[1] = "fetch_reserve") =>
             IF cached(q[2])
             THEN /\ off_run.result # None
                  /\ DecimalValue(off_run.result[1][1]) = ProbedReserves(q[2])[1]
                  /\ DecimalValue(off_run.result[1][2]) = ProbedReserves(q[2])[2]
                  /\ \A t \in tokens(q[2]) :
                        \A n \in EntriesOf(get_pair(offchain, <<t>>), q[2]) :
                           LET e == get_pair(offchain, <<t>>)[n]
                           IN /\ DecimalValue(off_run.result[1][1]) = e.initial_reserves_0
                              /\ DecimalValue(off_run.result[1][2]) = e.initial_reserves_1
             ELSE (off_run.inits = 0 \/ q[2] \notin offchain.v2_pairs)
                      => off_run.result = None
       /\ (q # << >> /\ q[1] = "get_token_balance") =>
             IF cached(q[3]) /\ q[2] \in tokens(q[3])
             THEN Len(ProbedBalance(q[2], q[3])) = 1
                     => off_run.result = <<ProbedBalance(q[2], q[3])[1]>>
             ELSE (\/ off_run.inits = 0 \/ q[3] \notin offchain.v2_pairs
                   \/ (InitializedOk /\ q[2] \notin tokens(q[3])))
                      => off_run.result = <<0>>
       /\ (/\ q # << >> /\ q[1] = "get_pair"
           /\ \/ off_run.inits = 0
              \/ InitializedOk /\ \A p \in offchain.v2_pairs : q[2] \notin tokens(p))
             => off_run.result = << >>

\* the balance of t1 in the second pair was asked for after both pairs were cached
C14_Witness ==
    /\ InitializedOk
    /\ offchain.v2_pairs = PairAddrs
    /\ off_run.query = <<"get_token_balance", "t1", "p2">>
    /\ off_run.result = <<20>>
    /\ fetch_reserve(offchain, <<"p1">>) = Some(<<<<1, 2, 0, 0>>, <<5>>>>)

\* C15: configured pair addresses are deduplicated: for any list of pair addresses given
\* to new, also one that names a pair several times, after one initialize pair_cache has
\* exactly one PairData of each distinct pair under its token0 and one under its token1:
\* get_pair(token) has as many entries as distinct configured pairs contain the token.
C15_PairsDeduplicated ==
    InitializedOk =>
        LET given == {off_run.given[n] : n \in DOMAIN off_run.given}
        IN /\ \A p \in given :
                 /\ Cardinality(EntriesOf(get_pair(offchain, <<ProbedToken0(p)>>), p)) = 1
                 /\ Cardinality(EntriesOf(get_pair(offchain, <<ProbedToken1(p)>>), p)) = 1
           /\ \A t \in TokenAddrs \cup PairAddrs :
                 Len(get_pair(offchain, <<t>>))
                    = Cardinality({p \in given : t \in {ProbedToken0(p), ProbedToken1(p)}})

\* a list that names one pair twice
C15_Witness ==
    /\ InitializedOk
    /\ off_run.given = <<"p1", "p1">>
    /\ Len(get_pair(offchain, <<WETH>>)) = 1
    /\ Len(get_pair(offchain, <<"t1">>)) = 1

\* a probe made for a pair fails: no code, a call that fails, return data too short
ProbeFails(p) ==
    LET short(key, words) == \/ ~vm.answers[key].success
                             \/ Len(vm.answers[key].return_value) < words
    IN \/ p \notin vm.code
       \/ short(<<p, token0_input>>, 1) \/ short(<<p, token1_input>>, 1)
       \/ short(<<p, get_reserves_input>>, 2)
       \/ \E input \in {token0_input, token1_input} :
             /\ ~short(<<p, input>>, 1)
             /\ LET t == vm.answers[<<p, input>>].return_value[1].lo
                IN \/ t \notin vm.code
                   \/ short(<<t, decimals_input>>, 1)
                   \/ ~vm.answers[<<t, balance_of_input(p)>>].success

\* C16: a probe failure never crashes and never classifies the pair: if a static call
\* made while building the cache for a pair P fails, finds no code or returns data
\* shorter than expected, the caches gain no entry for P and the process does not abort.
C16_ProbeFailureIsQuiet ==
    /\ off_run.status # "panic"
    /\ \A p \in PairAddrs :
          ProbeFails(p) =>
             /\ p \notin DOMAIN offchain.reserves_cache
             /\ \A t \in DOMAIN offchain.pair_cache :
                   EntriesOf(offchain.pair_cache[t], p) = {}
             /\ \A key \in DOMAIN offchain.balance_cache : key[1] # p

(***************************************************************************)
(* Claims about path discovery.                                            *)
(***************************************************************************)
\* the routes a call of find_path_subgraph returned
Routes ==
    IF info.op = "find_path_subgraph" /\ info.result.status = "ok"
    THEN info.result.info.routes ELSE << >>
\* the pairs of a sequence of hops
PairsOf(hops) == [n \in DOMAIN hops |-> hops[n].pair]
\* a pair is significant: reserve > 10^(decimals - 1) on either side, by the reserves
\* the endpoint holds
Significant(hop) ==
    /\ 10 * from_str_radix(onchain.reserves[hop.pair][1]) > pow10(hop.decimals_0)
    /\ 10 * from_str_radix(onchain.reserves[hop.pair][2]) > pow10(hop.decimals_1)
\* the graph given by get_pair
PairsFrom(token) == uniswap_get_pair(onchain, token, onchain.chain_name, FALSE)
Pegged(token) == token \in pegged_values(onchain.chain_name)
\* the simple paths of at most MAX_HOPS pairs from the token to a pegged asset
SimplePaths(token) ==
    LET first == PairsFrom(token)
    IN {<<first[n]>> : n \in {m \in DOMAIN first : Pegged(first[m].next)}}
       \cup UNION {
              {<<first[n], PairsFrom(first[n].next)[k]>> :
                 k \in {m \in DOMAIN PairsFrom(first[n].next) :
                          Pegged(PairsFrom(first[n].next)[m].next)}} :
              n \in {m \in DOMAIN first : /\ ~Pegged(first[m].next)
                                           /\ first[m].next # to_lowercase(token)}}
\* the hops of the pegged tokens in what the last call returned
PeggedHops ==
    IF info.op = "get_pegged_next_hop" /\ info.result.status = "ok"
    THEN {info.result.hop}
    ELSE {Routes[k][Len(Routes[k])] : k \in DOMAIN Routes}

\* C17: every route of find_path_subgraph has at most MAX_HOPS = 2 swap pairs before
\* its terminal pegged hop, for every token and every pair graph of the endpoint.
C17_RoutesWithinMaxHops ==
    \A k \in DOMAIN Routes : Len(Routes[k]) - 1 <= MAX_HOPS

\* C18: path discovery is complete: for a target token that is not pegged, every simple
\* path within the hop bound that leads through significant pairs from the target to a
\* pegged asset, in the graph given by get_pair, is a route of the result, whatever the
\* order in which get_pair lists the pairs.
C18_EveryPathIsARoute ==
    (/\ info.op = "find_path_subgraph" /\ info.result.status = "ok"
     /\ ~Pegged(info.token))
        => \A path \in SimplePaths(info.token) :
              LET last_hop == get_pegged_next_hop(onchain, path[Len(path)].next,
                                                  onchain.chain_name).hop
              IN (/\ \A n \in DOMAIN path : Significant(path[n])
                  /\ last_hop.src = "pegged" => Significant(last_hop))
                    => \E k \in DOMAIN Routes :
                          PairsOf(Routes[k]) = PairsOf(path) \o <<last_hop.pair>>

\* C19: for every target token, pegged or not, every route of the result consists only
\* of significant pairs, a pair being significant iff reserve0 > 10^(decimals_0 - 1) and
\* reserve1 > 10^(decimals_1 - 1): no route with an insignificant pair is in the result.
C19_RoutesAreSignificant ==
    \A k \in DOMAIN Routes :
        \A n \in DOMAIN Routes[k] :
            Routes[k][n].src # "pegged_weth" => Significant(Routes[k][n])

\* what C20 says of a hop, the quotient's half taken away from zero as f64::round does
RateRounded(hop) ==
    LET r0 == from_str_radix(hop.initial_reserves_0)
        r1 == from_str_radix(hop.initial_reserves_1)
    IN hop.rate = IF hop.in_ = 0 THEN (2 * r1 * 1000000 + r0) \div (2 * r0)
                  ELSE (2 * r0 * 1000000 + r1) \div (2 * r1)
\* C20, as stated: for a terminal pegged hop with reserves (r0, r1), both positive and
\* in the range of the model, the rate is round((r1 / r0) * 10^6) when in_ = 0 and
\* round((r0 / r1) * 10^6) when in_ = 1.
C20_RateIsRounded ==
    \A hop \in PeggedHops : hop.src = "pegged" => RateRounded(hop)

\* C20, amended: the rate is an integer nearest to the quotient, at most 1/2 away from
\* it; which of the two nearest it is when the quotient lies halfway between them is
\* left to the binary64 computation.
C20_RateIsNearest ==
    \A hop \in PeggedHops :
        hop.src = "pegged" =>
            LET r0 == from_str_radix(hop.initial_reserves_0)
                r1 == from_str_radix(hop.initial_reserves_1)
                num == IF hop.in_ = 0 THEN r1 ELSE r0
                den == IF hop.in_ = 0 THEN r0 ELSE r1
                off == hop.rate * den - num * 1000000
            IN /\ 0 < r0 /\ r0 <= MaxReserve /\ 0 < r1 /\ r1 <= MaxReserve
               /\ 2 * off <= den /\ -2 * off <= den

\* the hop of USDC over the pair with reserves 2 and 3, USDC being token1
C20_Witness ==
    /\ info.op = "get_pegged_next_hop"
    /\ info.result.status = "ok"
    /\ info.result.hop.src = "pegged"
    /\ info.result.hop.in_ = 1
    /\ info.result.hop.initial_reserves_0 = <<3>>
    /\ info.result.hop.rate = 1500000

\* C21: for a target token that is a known pegged asset, path discovery returns exactly
\* one route, made of a single pegged hop; for the network's wrapped native token that
\* hop has src "pegged_weth", rate 1,000,000 and no pair address, and it is produced
\* without any lookup on the endpoint: it is what an endpoint knowing nothing gives.
C21_PeggedTargetSingleHop ==
    LET network == onchain.chain_name
        hop == IF info.op = "find_path_subgraph" THEN info.result.info.routes[1][1]
               ELSE info.result.hop
        knowing_nothing == [onchain EXCEPT !.pairs = EmptyMap, !.reserves = EmptyMap]
    IN /\ (/\ info.op = "find_path_subgraph" /\ info.result.status = "ok"
           /\ info.token \in pegged_values(network))
             => /\ Len(info.result.info.routes) = 1
                /\ Len(info.result.info.routes[1]) = 1
                /\ hop.src \in {"pegged", "pegged_weth"}
       /\ (info.op # "none" /\ info.token = get_weth(network))
             => /\ info.result.status = "ok"
                /\ hop.src = "pegged_weth" /\ hop.rate = 1000000 /\ hop.pair = ""
                /\ info.op = "find_path_subgraph"
                      => info.result = find_path_subgraph(knowing_nothing, info.token)
                /\ info.op = "get_pegged_next_hop"
                      => info.result
                            = get_pegged_next_hop(knowing_nothing, info.token, network)

\* path discovery for WBNB on bsc, the endpoint listing two pairs of WBNB
C21_Witness ==
    /\ onchain.chain_name = "bsc"
    /\ info.op = "find_path_subgraph"
    /\ info.token = "0xbb4cdb9cbd36b01bd1cbaebf2de08d9173bc095c"
    /\ info.token \in DOMAIN onchain.pairs
    /\ Len(onchain.pairs[info.token]) = 2
    /\ info.result.status = "ok"
    /\ Len(info.result.info.routes) = 1
    /\ info.result.info.routes[1][1].src = "pegged_weth"

(***************************************************************************)
(* Claims about the oracle of the typed bugs.                              *)
(***************************************************************************)
\* C22: an oracle call that returns emits one report and returns one index per entry
\* (bug_id, address, pc) of post_state.typed_bug, in the order of the list, and nothing
\* when the list is empty; the index of an entry is the hash of bug_id and pc moved up by
\* 8 + TYPED_BUG_BUG_IDX bits, so entries with the same bug_id and pc have the same index
\* whatever their addresses; the name is the one address_to_name has for the address,
\* else the printed address.
C22_OneReportPerTypedBug ==
    LET typed_bug == ctx.post_state.typed_bug
        names == typed_bug_oracle.address_to_name
        moved == 8 + TYPED_BUG_BUG_IDX
    IN bug_output.status = "ok" =>
         /\ Len(bug_output.reports) = Len(typed_bug)
         /\ Len(bug_output.returned) = Len(typed_bug)
         /\ \A i \in DOMAIN typed_bug :
              LET hash == default_hasher[<<typed_bug[i][1], typed_bug[i][2][2]>>]
                  addr == typed_bug[i][2][1]
                  made == bug_output.reports[i]
              IN /\ bug_output.returned[i] = made.bug_idx
                 /\ \A b \in 1..64 :
                      made.bug_idx[b] = IF b <= 64 - moved THEN hash[b + moved] ELSE 0
                 /\ made.description = <<"Invariant ", typed_bug[i][1], " violated">>
                 /\ addr \in DOMAIN names => made.name = Some(names[addr])
                 /\ addr \notin DOMAIN names => made.name = Some(<<addr>>)
         /\ \A i, j \in DOMAIN typed_bug :
              (typed_bug[i][1] = typed_bug[j][1] /\ typed_bug[i][2][2] = typed_bug[j][2][2])
                 => bug_output.returned[i] = bug_output.returned[j]

\* two typed bugs with one bug_id and pc, the first at the named address and the second at
\* an address without a name, hashed to a u64 whose top bit the shift loses
C22_Witness ==
    /\ bug_output.status = "ok"
    /\ Len(ctx.post_state.typed_bug) = 2
    /\ Len(bug_output.reports) = 2
    /\ ctx.post_state.typed_bug[1] = <<"inv_a", <<"0xc1", 7>>>>
    /\ ctx.post_state.typed_bug[2] = <<"inv_a", <<"0xc2", 7>>>>
    /\ "0xc1" \in DOMAIN typed_bug_oracle.address_to_name
    /\ default_hasher[<<"inv_a", 7>>][1] = 1
    /\ bug_output.reports[1].name # bug_output.reports[2].name
    /\ bug_output.returned[1][64 - 8 - TYPED_BUG_BUG_IDX] = 1

(***************************************************************************)
(* Claims about the seed inputs of the corpus initializer.                 *)
(***************************************************************************)
\* the inputs of type ABI in the main corpus, in the order of the corpus
AbiSeeds ==
    LET is_abi(tc) == tc.input.input_type = "ABI"
        seeds == SelectSeq(state.corpus, is_abi)
    IN [n \in DOMAIN seeds |-> seeds[n].input]

Blacklisted(addr) == blacklist_addr # None /\ addr \in blacklist_addr[1]

\* an ABI entry that is to be seeded
Eligible(abi) ==
    /\ ~abi.is_constructor
    /\ ~starts_with(abi.function_name, "invariant_")
    /\ ~starts_with(abi.function_name, "echidna_")
    /\ abi.function_name \notin {"setUp", "failed"}
    /\ ~abi.is_static

\* the eligible entries of the contracts i.. of the loader that are not blacklisted, each
\* with the address of its contract
RECURSIVE EligibleFrom(_)
EligibleFrom(i) ==
    IF i > Len(loader.contracts) THEN << >>
    ELSE LET contract == loader.contracts[i]
             entries == IF Blacklisted(contract.deployed_address) THEN << >>
                        ELSE SelectSeq(contract.abi, Eligible)
         IN [n \in DOMAIN entries |-> [contract |-> contract.deployed_address,
                                       abi |-> entries[n]]]
            \o EligibleFrom(i + 1)

\* C23: once initialization is through, the inputs of type ABI in the main corpus are,
\* one for one and in order, the ABI entries of the non-blacklisted contracts that are no
\* constructor, not named invariant_..., echidna_..., setUp or failed, and not static:
\* each has the address of its contract as contract and, where it has data, data bound
\* to the selector of its entry.
C23_SeedsForEligibleFunctions ==
    pc.op = "done" =>
        LET expected == EligibleFrom(1)
        IN /\ Len(AbiSeeds) = Len(expected)
           /\ \A n \in DOMAIN expected :
                /\ AbiSeeds[n].contract = expected[n].contract
                /\ AbiSeeds[n].data # None
                     => /\ AbiSeeds[n].data[1].function = expected[n].abi.function
                        /\ AbiSeeds[n].data[1].function_name = expected[n].abi.function_name

\* the token alone, whose ABI has transfer as its one eligible function among four: one
\* seed for transfer at the token's address
C23_Witness ==
    /\ pc.op = "done"
    /\ Len(loader.contracts) = 1
    /\ Len(loader.contracts[1].abi) = 4
    /\ Len(AbiSeeds) = 1
    /\ AbiSeeds[1].contract = loader.contracts[1].deployed_address
    /\ AbiSeeds[1].data = Some([function |-> 2, function_name |-> "transfer"])

\* C24: once initialization is through, every input of type ABI in the main corpus has
\* data unless its function is !receive!, a value of zero if its function is payable and
\* no value otherwise, repeat 1, randomness [0], liquidation_percent 0, and a caller
\* registered on the fuzz state.
C24_AbiSeedFields ==
    pc.op = "done" =>
        \A n \in DOMAIN AbiSeeds :
            LET input == AbiSeeds[n]
                abi == EligibleFrom(1)[n].abi
            IN /\ (input.data = None) <=> (abi.function_name = "!receive!")
               /\ input.data # None => Len(input.data) = 1
               /\ abi.is_payable => input.txn_value = Some(<<0>>)
               /\ ~abi.is_payable => input.txn_value = None
               /\ input.repeat = 1
               /\ input.randomness = <<0>>
               /\ input.liquidation_percent = 0
               /\ input.caller \in callers

\* the harness gave a seed for its payable !receive! and one for its transfer, which is
\* not payable
C24_Witness ==
    /\ pc.op = "done"
    /\ \E n, m \in DOMAIN AbiSeeds :
         /\ AbiSeeds[n].data = None /\ AbiSeeds[n].txn_value = Some(<<0>>)
         /\ EligibleFrom(1)[n].abi.function_name = "!receive!"
         /\ AbiSeeds[m].data # None /\ AbiSeeds[m].txn_value = None
         /\ AbiSeeds[m].contract = AbiSeeds[n].contract

\* C25: the main corpus holds no input, of type ABI or Borrow, whose contract is an
\* address of the blacklist.
C25_NoSeedForBlacklisted ==
    \A n \in DOMAIN state.corpus : ~Blacklisted(state.corpus[n].input.contract)

\* the deployment of contract i of the loader failed
DeployFailed(i) ==
    ~loader.contracts[i].is_code_deployed /\ ~loader.contracts[i].code.ctor_ok

\* C26: once initialization is through, a contract whose deployment failed, at an address
\* no other contract of the loader has, is not in the address directory, has no entry in
\* the maps of the artifacts, is not known to the flash-loan middleware and is the
\* contract of no input in the main corpus; every contract after it that was deployed
\* is in the address directory and in the artifacts.
C26_FailedDeploymentSkipped ==
    pc.op = "done" =>
        \A i \in DOMAIN loader.contracts :
            LET addr == loader.contracts[i].deployed_address
                alone == \A j \in DOMAIN loader.contracts :
                            j # i => loader.contracts[j].deployed_address # addr
            IN (DeployFailed(i) /\ alone) =>
                 /\ addr \notin state.addresses
                 /\ addr \notin DOMAIN artifacts[1].address_to_name
                 /\ addr \notin DOMAIN artifacts[1].address_to_abi
                 /\ addr \notin DOMAIN artifacts[1].address_to_bytecode
                 /\ addr \notin DOMAIN artifacts[1].address_to_sourcemap
                 /\ addr \notin middleware.known_addresses
                 /\ \A n \in DOMAIN state.corpus : state.corpus[n].input.contract # addr
                 /\ \A j \in DOMAIN loader.contracts :
                      (j > i /\ ~DeployFailed(j)) =>
                         /\ loader.contracts[j].deployed_address \in state.addresses
                         /\ loader.contracts[j].deployed_address
                               \in DOMAIN artifacts[1].address_to_name

InfantCorpus == state.infant_states_state.corpus
\* the EVM state of the setup data if the loader has setup data, else the executor's
WrappedState ==
    IF loader.setup_data # None THEN loader.setup_data[1].evmstate ELSE evmstate

\* C27: the infant corpus and the infant scheduler stay empty until the last step of
\* initialize_corpus, which comes when no seed input is left to add and adds one staged
\* state with exec time 0 and tells the infant scheduler its index, once; the staged
\* state wraps the EVM state of the setup data if the loader has setup data and else the
\* EVM state the executor had when initialize_corpus began.
C27_OneInfantState ==
    /\ [](pc.op # "done" => (InfantCorpus = << >> /\ infant_scheduler = << >>))
    /\ [](pc.op = "done" =>
            /\ Len(InfantCorpus) = 1
            /\ InfantCorpus[1] = [input |-> [state |-> WrappedState], exec_time |-> 0]
            /\ infant_scheduler = <<[call |-> "on_add", idx |-> 0]>>)
    /\ [][ /\ pc.op = "initialize_corpus"
                 => artifacts'[1].initial_state.state = WrappedState
           /\ pc.op \in {"contract", "abi", "seed"} =>
                 /\ evmstate' = evmstate
                 /\ artifacts'[1].initial_state = artifacts[1].initial_state
           /\ pc.op \in {"seed", "done"} => state'.corpus = state.corpus ]_vars

\* initialization of a loader with setup data is through, with two seed inputs in the
\* main corpus and the state of the setup, which is not the executor's, staged
C27_Witness ==
    /\ pc.op = "done"
    /\ loader.setup_data # None
    /\ Len(state.corpus) = 2
    /\ Len(state.infant_states_state.corpus) = 1
    /\ state.infant_states_state.corpus[1].input.state = loader.setup_data[1].evmstate
    /\ loader.setup_data[1].evmstate # evmstate

(***************************************************************************)
(* Further claims about the flash-loan middleware.                         *)
(***************************************************************************)
\* C28: no on_step changes owed; an on_step on an opcode other than CALL (0xf1) and
\* CALLCODE (0xf2), DELEGATECALL (0xf4) and STATICCALL (0xfa) among them, leaves earned
\* as it was; an on_step on an opcode outside 0x55, 0xf1, 0xf2, 0xf4 and 0xfa leaves the
\* whole FlashloanData as it was.
C28_StepValueNeutral ==
    [][ last'.op = "on_step" =>
          /\ flashloan_data'.owed = flashloan_data.owed
          /\ last'.interp.op \notin {241, 242}
                => flashloan_data'.earned = flashloan_data.earned
          /\ last'.interp.op \notin {85, 241, 242, 244, 250}
                => flashloan_data' = flashloan_data ]_vars

\* a STATICCALL to a registered caller with a non-zero word where a CALL has its value,
\* after a CALL had earned and an input had owed: both sums are what they were
C28_Witness ==
    /\ last.op = "on_step" /\ last.interp.op = 250
    /\ last.interp.stack[3] = 1
    /\ last.interp.stack[2].lo \in callers
    /\ flashloan_data.earned = 1000000
    /\ flashloan_data.owed = 1000000

\* C29: whatever contract insertions, analyze_call and on_step a fresh middleware with an
\* empty FlashloanData has seen, erc20_address and pair_address lie within
\* known_addresses, oracle_recheck_balance within erc20_address and
\* oracle_recheck_reserve within pair_address; and none of the three operations takes
\* an element out of any of the five sets.
C29_SetsNestedAndGrowing ==
    /\ [](/\ middleware.erc20_address \subseteq middleware.known_addresses
          /\ middleware.pair_address \subseteq middleware.known_addresses
          /\ flashloan_data.oracle_recheck_balance \subseteq middleware.erc20_address
          /\ flashloan_data.oracle_recheck_reserve \subseteq middleware.pair_address)
    /\ [][ /\ middleware.known_addresses \subseteq middleware'.known_addresses
           /\ middleware.erc20_address \subseteq middleware'.erc20_address
           /\ middleware.pair_address \subseteq middleware'.pair_address
           /\ flashloan_data.oracle_recheck_balance
                 \subseteq flashloan_data'.oracle_recheck_balance
           /\ flashloan_data.oracle_recheck_reserve
                 \subseteq flashloan_data'.oracle_recheck_reserve ]_vars

\* c1 is a token, c2 a pair and no token; c1 is to be rechecked for its balance, c2 for
\* its reserves, and the last operation was an analyze_call on c2
C29_Witness ==
    /\ middleware.known_addresses = {"c1", "c2"}
    /\ middleware.erc20_address = {"c1"}
    /\ middleware.pair_address = {"c2"}
    /\ flashloan_data.oracle_recheck_balance = {"c1"}
    /\ flashloan_data.oracle_recheck_reserve = {"c2"}
    /\ last.op = "analyze_call" /\ last.input.contract = "c2"

(***************************************************************************)
(* Further claims about path discovery.                                    *)
(***************************************************************************)
\* no element occurs twice
NoRepeat(seq) == \A i, j \in DOMAIN seq : seq[i] = seq[j] => i = j
\* the tokens a route of the target passes through: the target and the token every
\* swap pair leads to
TokensOf(route) ==
    <<to_lowercase(info.token)>>
       \o [n \in 1..(Len(route) - 1) |-> to_lowercase(route[n].next)]

\* C30: every path discovery comes to an end, on pair graphs with cycles too; for a
\* target spelled in lower case, as fetch_uniswap_path spells it, get_all_hops is called
\* for no token twice and dfs inserts no token twice into visited, every route is a
\* sequence of swap pairs followed by one pegged hop (src "pegged" or "pegged_weth"),
\* its last element, and no route passes through a token twice.
C30_DiscoveryEndsRoutesSimple ==
    info.op = "find_path_subgraph" =>
        /\ info.result.status \in {"ok", "panic"}
        /\ (info.result.status = "ok" /\ info.token = to_lowercase(info.token)) =>
              /\ NoRepeat(info.result.expanded)
              /\ NoRepeat(info.result.entered)
              /\ \A k \in DOMAIN Routes :
                   /\ Len(Routes[k]) >= 1
                   /\ Routes[k][Len(Routes[k])].src \in {"pegged", "pegged_weth"}
                   /\ \A n \in 1..(Len(Routes[k]) - 1) : Routes[k][n].src = "v2"
                   /\ NoRepeat(TokensOf(Routes[k]))

\* the endpoint has both pairs of 0xa1 with 0xb2, each token leading back to the other:
\* discovery from 0xa1 went through three tokens and returned a route of three pairs
C30_Witness ==
    /\ info.op = "find_path_subgraph" /\ info.token = "0xa1"
    /\ {"0x1ab", "0x2ab"} \subseteq DOMAIN onchain.reserves
    /\ info.result.status = "ok"
    /\ Len(info.result.expanded) >= 3
    /\ Len(info.result.entered) >= 3
    /\ \E k \in DOMAIN Routes : Len(Routes[k]) = 4

====
